---- MODULE Spec2Model ----
(***************************************************************************)
(* Model of spellb00k: the sql.js entity store (src/lib/database.ts), the  *)
(* chapter / project / chat services on top of it, the llmService          *)
(* dispatcher with its plan parser and sequence workflow, and the          *)
(* ChapterManager handlers that drive them.                                *)
(*                                                                         *)
(* A service call is one action.  A store call that throws is an input of  *)
(* the action: failAt = k means that the k-th store call made by the       *)
(* service call throws (0: none does).                                     *)
(***************************************************************************)
EXTENDS Integers, Sequences, FiniteSets, TLC

VARIABLES
  db,        \* the sql.js database held by src/lib/database.ts
  last,      \* the call just made and what it returned (observation)
  chapters,  \* App's chapters state: the chapter list the UI shows
  file,      \* the bytes last written by "Save Project to File"
  trail,     \* whether a store call has thrown so far, and whether
             \* deleteChapter has been called outside the handlers (observation)
  settings,  \* the localStorage item src/lib/settingsService.ts keeps
  tasks,     \* the service calls in flight, where their store calls are
             \* taken one at a time: each caller's call and its position in it
  engine     \* sql.js as src/lib/database.ts holds it, where the steps of
             \* initializeDatabase are taken one at a time: whether SQL is
             \* loaded, the Database instances built so far and what the ones
             \* db no longer refers to hold

vars == <<db, last, chapters, file, trail, settings, tasks, engine>>

\* What the chapter-service specification leaves alone.
appVars == <<chapters, file, trail, settings, tasks, engine>>

(***************************************************************************)
(* Bounds of the model.                                                    *)
(***************************************************************************)
MaxProjects == 2
MaxChapters == 2

(***************************************************************************)
(* Values.                                                                 *)
(***************************************************************************)
\* SQL NULL / JavaScript null in a text column or a result.
Null == "null"
\* SQL NULL in messages.chapterId (row ids start at 1).
NullId == 0

\* Titles and descriptions are sequences of characters, contents are strings
\* ("" is the empty text, which is not NULL).
Titles == {<<"T">>}
Descriptions == {<<"D">>}

(***************************************************************************)
(* The store: src/lib/database.ts.                                         *)
(***************************************************************************)
\* new SQL.Database() followed by the CREATE TABLE statements: three empty
\* tables, AUTOINCREMENT counters at 0, no row inserted on this connection.
EmptyDb ==
  [open |-> TRUE, projects |-> {}, chapters |-> {}, messages |-> {},
   seq |-> [projects |-> 0, chapters |-> 0, messages |-> 0], rowid |-> 0]

\* db = null.
NullDb ==
  [open |-> FALSE, projects |-> {}, chapters |-> {}, messages |-> {},
   seq |-> [projects |-> 0, chapters |-> 0, messages |-> 0], rowid |-> 0]

\* if (db) return db; otherwise a new, empty database is created.
initializeDatabase(d) == IF d.open THEN d ELSE EmptyDb

\* The connection's foreign_keys pragma.  SQLite parses ON DELETE CASCADE but
\* enforces foreign keys only on a connection that has run
\* PRAGMA foreign_keys = ON; no statement of the program does.
ForeignKeysEnabled == FALSE

ChapterIds(d) == {c.id : c \in d.chapters}

ChaptersOf(d, projectId) == {c \in d.chapters : c.projectId = projectId}

SetMax(S) == CHOOSE x \in S : \A y \in S : y <= x

\* INSERT INTO chapters (...) VALUES (...): id from the AUTOINCREMENT counter.
InsertChapter(d, projectId, title, description, content, order) ==
  LET id == d.seq.chapters + 1
      row == [id |-> id, projectId |-> projectId, title |-> title,
              description |-> description, content |-> content, order |-> order]
  IN [d EXCEPT !.chapters = @ \cup {row}, !.seq.chapters = id, !.rowid = id]

\* Mutant of UpdateChapterRow: the statement sets all four columns, the ones
\* the request does not hold to an empty value.
UpdateChapterRowEveryField(d, id, updates) ==
  LET blank == [title |-> <<>>, description |-> <<>>, content |-> Null, order |-> 0]
  IN [d EXCEPT !.chapters =
        {IF c.id = id
           THEN [f \in DOMAIN c |->
                   IF f \in DOMAIN updates THEN updates[f]
                   ELSE IF f \in DOMAIN blank THEN blank[f] ELSE c[f]]
           ELSE c : c \in @}]

\* UPDATE chapters SET f = ?, ... WHERE id = ?: updates is a record holding
\* the fields to set; a missing id updates no row and is no error.
UpdateChapterRow(d, id, updates) ==
  [d EXCEPT !.chapters =
     {IF c.id = id
        THEN [f \in DOMAIN c |-> IF f \in DOMAIN updates THEN updates[f] ELSE c[f]]
        ELSE c : c \in @}]

\* Mutant of DeleteChapterRow: the siblings behind the deleted chapter move up
\* by one (the renumberChapters helper the source keeps commented out).
DeleteChapterRowRenumbering(d, id) ==
  [d EXCEPT !.chapters =
     {IF \E gone \in d.chapters :
            /\ gone.id = id
            /\ gone.projectId = c.projectId
            /\ gone.order < c.order
        THEN [c EXCEPT !.order = @ - 1]
        ELSE c : c \in {c0 \in @ : c0.id # id}}]

\* DELETE FROM chapters WHERE id = ?; dependent messages go only under an
\* enforced foreign key.
DeleteChapterRow(d, id) ==
  [d EXCEPT !.chapters = {c \in @ : c.id # id},
            !.messages = IF ForeignKeysEnabled
                           THEN {m \in @ : m.chapterId # id} ELSE @]

\* SELECT * FROM chapters WHERE id = ?: no row (null) or one.
SelectChapter(d, id) == {c \in d.chapters : c.id = id}

(***************************************************************************)
(* chapterService: src/services/chapterService.ts.                         *)
(***************************************************************************)
\* Mutants of NextOrder: the number of siblings instead of their maximum
\* order plus one; the maximum taken over every project's chapters.
NextOrderByCount(d, projectId) == Cardinality(ChaptersOf(d, projectId))

NextOrderAnyProject(d, projectId) ==
  IF d.chapters = {} THEN 0 ELSE SetMax({c.order : c \in d.chapters}) + 1

\* (result?.maxOrder ?? -1) + 1 over SELECT MAX("order") ... WHERE projectId = ?
NextOrder(d, projectId) ==
  IF ChaptersOf(d, projectId) = {} THEN 0
  ELSE SetMax({c.order : c \in ChaptersOf(d, projectId)}) + 1

\* Store calls: 1 the MAX query, 2 the INSERT, 3 the read-back through
\* last_insert_rowid().  Returns the store and the result ({} is null).
createChapter(d0, projectId, title, description, content, failAt) ==
  LET d == initializeDatabase(d0)
      d2 == InsertChapter(d, projectId, title, description, content,
                          NextOrder(d, projectId))
  IN CASE failAt \in {1, 2} -> [db |-> d, result |-> {}]
       [] failAt = 3 -> [db |-> d2, result |-> {}]
       [] OTHER -> [db |-> d2, result |-> SelectChapter(d2, d2.rowid)]

\* The sequences SELECT ... WHERE projectId = ? ORDER BY "order" ASC may
\* return: every arrangement of the project's rows with ascending order (rows
\* of equal order come in an order SQL leaves open).
SortedLists(rows) ==
  {s \in [1..Cardinality(rows) -> rows] :
     /\ \A i, j \in 1..Cardinality(rows) : i # j => s[i] # s[j]
     /\ \A i \in 1..(Cardinality(rows) - 1) : s[i].order <= s[i + 1].order}

\* A failing query is caught and answered with the empty list.
getChaptersByProjectId(d, projectId, failAt) ==
  IF failAt = 1 THEN {<<>>} ELSE SortedLists(ChaptersOf(initializeDatabase(d), projectId))

getChapterById(d, id, failAt) ==
  IF failAt = 1 THEN {} ELSE SelectChapter(initializeDatabase(d), id)

\* With no field to set: one store call, the read.  Otherwise: 1 the UPDATE,
\* 2 the read-back; a throwing UPDATE is caught and answered with null.
\* writes counts the UPDATE statements handed to the store.
updateChapter(d0, id, updates, failAt) ==
  LET d == initializeDatabase(d0)
      d2 == UpdateChapterRow(d, id, updates)
  IN IF DOMAIN updates = {}
       THEN [db |-> d, result |-> getChapterById(d, id, failAt), writes |-> 0]
       ELSE CASE failAt = 1 -> [db |-> d, result |-> {}, writes |-> 1]
              [] failAt = 2 -> [db |-> d2, result |-> {}, writes |-> 1]
              [] OTHER -> [db |-> d2, result |-> SelectChapter(d2, id), writes |-> 1]

\* Mutant of OrderWrites: the write that throws is skipped and the loop goes on.
RECURSIVE OrderWritesGoOn(_, _, _, _)
OrderWritesGoOn(d, updates, i, failAt) ==
  IF i > Len(updates) THEN [db |-> d, result |-> failAt = 0, applied |-> i - 1]
  ELSE IF failAt = i THEN OrderWritesGoOn(d, updates, i + 1, failAt)
  ELSE OrderWritesGoOn(UpdateChapterRow(d, updates[i].id, [order |-> updates[i].order]),
                       updates, i + 1, failAt)

\* The UPDATEs of updates[1..n], one store call each, stopped by the first
\* that throws: applied counts the writes done.
RECURSIVE OrderWrites(_, _, _, _)
OrderWrites(d, updates, i, failAt) ==
  IF i > Len(updates) THEN [db |-> d, result |-> TRUE, applied |-> i - 1]
  ELSE IF failAt = i THEN [db |-> d, result |-> FALSE, applied |-> i - 1]
  ELSE OrderWrites(UpdateChapterRow(d, updates[i].id, [order |-> updates[i].order]),
                   updates, i + 1, failAt)

updateChapterOrder(d0, updates, failAt) ==
  IF Len(updates) = 0 THEN [db |-> d0, result |-> TRUE, applied |-> 0]
  ELSE OrderWrites(initializeDatabase(d0), updates, 1, failAt)

\* Mutant of deleteChapter: a DELETE that throws is issued a second time, which
\* goes through.
DeleteChapterRetrying(d0, id, failAt) ==
  [db |-> DeleteChapterRow(initializeDatabase(d0), id), result |-> TRUE]

\* One store call, the DELETE.
deleteChapter(d0, id, failAt) ==
  IF failAt = 1 THEN [db |-> d0, result |-> FALSE]
  ELSE [db |-> DeleteChapterRow(initializeDatabase(d0), id), result |-> TRUE]

(***************************************************************************)
(* projectService: src/services/projectService.ts.                         *)
(***************************************************************************)
\* INSERT INTO projects (name, description, parameters) VALUES (?, ?, ?)
InsertProject(d, name, description, parameters) ==
  LET id == d.seq.projects + 1
      row == [id |-> id, name |-> name, description |-> description,
              parameters |-> parameters]
  IN [d EXCEPT !.projects = @ \cup {row}, !.seq.projects = id, !.rowid = id]

SelectProject(d, id) == {p \in d.projects : p.id = id}

\* DELETE FROM projects WHERE id = ?; chapters and messages of the project go
\* only under an enforced foreign key.
DeleteProjectRow(d, id) ==
  [d EXCEPT !.projects = {p \in @ : p.id # id},
            !.chapters = IF ForeignKeysEnabled
                           THEN {c \in @ : c.projectId # id} ELSE @,
            !.messages = IF ForeignKeysEnabled
                           THEN {m \in @ : m.projectId # id} ELSE @]

\* Store calls: 1 the INSERT, 2 the read-back through last_insert_rowid().
createProject(d0, name, description, parameters, failAt) ==
  LET d == initializeDatabase(d0)
      d2 == InsertProject(d, name, description, parameters)
  IN CASE failAt = 1 -> [db |-> d, result |-> {}]
       [] failAt = 2 -> [db |-> d2, result |-> {}]
       [] OTHER -> [db |-> d2, result |-> SelectProject(d2, d2.rowid)]

getProjectById(d, id, failAt) ==
  IF failAt = 1 THEN {} ELSE SelectProject(initializeDatabase(d), id)

\* One store call, the DELETE.
deleteProject(d0, id, failAt) ==
  IF failAt = 1 THEN [db |-> d0, result |-> FALSE]
  ELSE [db |-> DeleteProjectRow(initializeDatabase(d0), id), result |-> TRUE]

(***************************************************************************)
(* Service calls as actions.  A call is one action; last records the call  *)
(* just made (its name, its arguments, the store before it, what it        *)
(* returned) until the caller has taken the result (Return).  The record   *)
(* is an observation of the run, not state of the program.                 *)
(***************************************************************************)
NoCall == [op |-> "none"]

Idle == last = NoCall

Return ==
  /\ ~Idle
  /\ last' = NoCall
  /\ UNCHANGED <<db, chapters, file, trail, settings, tasks, engine>>

\* The field sets a caller passes to updateChapter.
NoFields == <<>>

OrderValues == 0..(MaxChapters - 1)

ChapterIdSpace == 1..MaxChapters

ProjectIds(d) == {p.id : p \in d.projects}

\* The (id, order) pairs a batch may hold.
OrderPairs == [id : ChapterIdSpace, order : OrderValues]

\* The batch a reorder of the displayed list builds: entry i gives the i-th
\* chapter of the list the order i - 1.
IndexUpdates(list) == [i \in 1..Len(list) |-> [id |-> list[i].id, order |-> i - 1]]

Arrangements(S) ==
  {s \in [1..Cardinality(S) -> S] : \A i, j \in 1..Cardinality(S) : i # j => s[i] # s[j]}

\* The batches tried: any batch of at most two pairs, and the index batches
\* over every arrangement of a project's chapters.
UpdateBatches(d) ==
  {<<>>} \cup {<<u>> : u \in OrderPairs} \cup {<<u, v>> : u, v \in OrderPairs}
    \cup UNION {{IndexUpdates(s) : s \in Arrangements(ChaptersOf(d, p))} :
                  p \in ProjectIds(d)}

CreateProject ==
  /\ Idle
  /\ db.seq.projects < MaxProjects
  /\ \E failAt \in 0..2 :
       LET r == createProject(db, "P", Null, Null, failAt)
       IN /\ db' = r.db
          /\ last' = [op |-> "createProject", pre |-> db, result |-> r.result]
          /\ UNCHANGED appVars

CreateChapter ==
  /\ Idle
  /\ db.seq.chapters < MaxChapters
  /\ \E projectId \in ProjectIds(db), title \in Titles,
        description \in Descriptions, failAt \in 0..3 :
       LET r == createChapter(db, projectId, title, description, Null, failAt)
       IN /\ db' = r.db
          /\ last' = [op |-> "createChapter", pre |-> db, projectId |-> projectId,
                      result |-> r.result]
          /\ UNCHANGED appVars

UpdateChapter ==
  /\ Idle
  /\ \E id \in ChapterIdSpace, failAt \in 0..2,
        updates \in {NoFields} \cup {[order |-> o] : o \in OrderValues}
                      \cup {[title |-> t] : t \in Titles} :
       LET r == updateChapter(db, id, updates, failAt)
       IN /\ db' = r.db
          /\ last' = [op |-> "updateChapter", pre |-> db, id |-> id,
                      updates |-> updates, failAt |-> failAt, result |-> r.result]
          /\ UNCHANGED appVars

UpdateChapterOrder ==
  /\ Idle
  /\ \E updates \in UpdateBatches(db) :
       \E failAt \in 0..Len(updates) :
         LET r == updateChapterOrder(db, updates, failAt)
         IN /\ db' = r.db
            /\ last' = [op |-> "updateChapterOrder", pre |-> db, updates |-> updates,
                        failAt |-> failAt, result |-> r.result]
            /\ UNCHANGED appVars

DeleteChapter ==
  /\ Idle
  /\ \E id \in ChapterIdSpace, failAt \in 0..1 :
       LET r == deleteChapter(db, id, failAt)
       IN /\ db' = r.db
          /\ last' = [op |-> "deleteChapter", pre |-> db, id |-> id,
                      failAt |-> failAt, result |-> r.result]
          /\ UNCHANGED appVars

\* No file saved yet.
NoFile == [kind |-> "none"]

\* Nothing has failed and nothing has bypassed the handlers.
CleanTrail == [failed |-> FALSE, bare |-> FALSE]

\* localStorage.getItem(SETTINGS_KEY) === null: nothing saved yet.
NoSettings == [stored |-> FALSE]

\* No call in flight.
NoTasks == <<>>

\* let SQL = null: sql.js is not loaded and no Database has been built.
NoEngine == [SQL |-> FALSE, built |-> 0, replaced |-> <<>>]

Init ==
  /\ db = NullDb
  /\ last = NoCall
  /\ chapters = <<>>
  /\ file = NoFile
  /\ trail = CleanTrail
  /\ settings = NoSettings
  /\ tasks = NoTasks
  /\ engine = NoEngine

Next ==
  \/ CreateProject
  \/ CreateChapter
  \/ UpdateChapter
  \/ UpdateChapterOrder
  \/ DeleteChapter
  \/ Return

Spec == Init /\ [][Next]_vars

(***************************************************************************)
(* Claims on the chapter service (specification Spec).                     *)
(***************************************************************************)
\* The position of the last of the first m pairs of u that names chapter id
\* (0: none does).
LastPairFor(u, m, id) ==
  LET idx == {i \in 1..m : u[i].id = id}
  IN IF idx = {} THEN 0 ELSE SetMax(idx)

\* The order chapter c has once the first m pairs of u are written.
OrderAfter(c, u, m) ==
  IF LastPairFor(u, m, c.id) = 0 THEN c.order ELSE u[LastPairFor(u, m, c.id)].order

\* The writes a batch got done: all of them, or those before the one that threw.
WritesDone(u, failAt) == IF failAt = 0 THEN Len(u) ELSE failAt - 1

\* C3: updateChapterOrder(u1..un) writes the pairs in list order; when the
\* write of uk throws, the writes of u1..uk-1 stay in the store (and every
\* later getChaptersByProjectId shows them), no pair from uk on is written,
\* and the call returns false; it returns true exactly when no write threw,
\* and an empty batch returns true without touching the store.
C3_BatchStopsAtFirstFailure ==
  last.op = "updateChapterOrder" =>
    LET u == last.updates
        m == WritesDone(u, last.failAt)
    IN /\ last.result = (last.failAt = 0)
       /\ db.chapters =
            {[c EXCEPT !.order = OrderAfter(c, u, m)] : c \in last.pre.chapters}
       /\ \A p \in ProjectIds(db) :
            \A list \in getChaptersByProjectId(db, p, 0) :
              \A i \in 1..Len(list) :
                \E c \in last.pre.chapters :
                  c.id = list[i].id /\ list[i].order = OrderAfter(c, u, m)
       /\ Len(u) = 0 => db = last.pre

\* C3 witness: a two-pair batch whose second write threw after the first had
\* changed a chapter's order, the second pair naming a chapter it would have
\* changed.
C3_Witness ==
  /\ last.op = "updateChapterOrder"
  /\ Len(last.updates) = 2
  /\ last.failAt = 2
  /\ last.result = FALSE
  /\ db.chapters # last.pre.chapters
  /\ \E c \in db.chapters :
       c.id = last.updates[2].id /\ c.order # last.updates[2].order

\* No two chapters of one project have the same order.
DistinctOrders(d) ==
  \A c1, c2 \in d.chapters :
    (c1.projectId = c2.projectId /\ c1.order = c2.order) => c1.id = c2.id

\* The call recorded in last is a chapter write that reported success.
SuccessfulChapterWrite ==
  \/ last.op \in {"createChapter", "updateChapter"} /\ last.result # {}
  \/ last.op \in {"deleteChapter", "updateChapterOrder"} /\ last.result = TRUE

RenumbersWholeProjects(d, u) ==
  /\ \A i, j \in 1..Len(u) : u[i].id = u[j].id => i = j
  /\ \A c \in d.chapters :
       (\E i \in 1..Len(u) : \E c0 \in d.chapters :
           c0.id = u[i].id /\ c0.projectId = c.projectId)
         => \E i \in 1..Len(u) : u[i].id = c.id
  /\ \A i, j \in 1..Len(u) :
       \A ci, cj \in d.chapters :
         (ci.id = u[i].id /\ cj.id = u[j].id /\ ci.projectId = cj.projectId
            /\ u[i].order = u[j].order) => i = j

\* The writes that cannot introduce a duplicate order.
OrderPreservingWrite ==
  \/ last.op \in {"createChapter", "deleteChapter"}
  \/ last.op = "updateChapter" /\ "order" \notin DOMAIN last.updates
  \/ last.op = "updateChapterOrder" /\ RenumbersWholeProjects(last.pre, last.updates)

Inserted == db.chapters \ last.pre.chapters

\* C7: createChapter gives the new chapter the maximum order of the project's
\* existing chapters plus one (0 when there is none), changes no existing
\* chapter, and the new chapter is the last element of every list
\* getChaptersByProjectId returns for the project.
C7_CreateAppends ==
  (last.op = "createChapter" /\ db.seq.chapters # last.pre.seq.chapters) =>
    LET siblings == {c \in last.pre.chapters : c.projectId = last.projectId}
    IN /\ last.pre.chapters \subseteq db.chapters
       /\ Cardinality(Inserted) = 1
       /\ \A new \in Inserted :
            /\ new.projectId = last.projectId
            /\ new.order = IF siblings = {} THEN 0
                           ELSE SetMax({c.order : c \in siblings}) + 1
            /\ \A c \in siblings : c.order < new.order
            /\ \A list \in getChaptersByProjectId(db, last.projectId, 0) :
                 list[Len(list)] = new

\* C7 witness: a chapter created behind a sibling whose order is not 0, so
\* that the new order is above the number of siblings.
C7_Witness ==
  /\ last.op = "createChapter"
  /\ last.result # {}
  /\ \E c \in last.pre.chapters : c.projectId = last.projectId /\ c.order > 0
  /\ \E new \in Inserted : new.order > 1

(***************************************************************************)
(* llmService: the sequence workflow (src/services/llmService.ts).         *)
(***************************************************************************)
MaxSeqChapters == 3

\* What the provider returns for a content prompt, when it returns text.
Generated == {"g"}

\* The parameters column: NULL or the JSON text of an EbookParameters object.
ParameterTexts == {Null, "{\"continueNarrative\":true}"}

\* A parameters column that is not JSON: the text above cut short.
CorruptBlob == "{\"continueNarrative\":"

\* JSON.parse on the texts a parameters column holds: the object parsed, or
\* none ({}) when JSON.parse throws a SyntaxError.
JSONparse(text) ==
  CASE text = "{\"continueNarrative\":true}" -> {[continueNarrative |-> TRUE]}
    [] text = "{\"continueNarrative\":false}" -> {[continueNarrative |-> FALSE]}
    [] text = "{}" -> {[continueNarrative |-> FALSE]}
    [] OTHER -> {}

\* project.parameters ? JSON.parse(project.parameters) : {} throws.
ParametersThrow(project) ==
  project.parameters # Null /\ JSONparse(project.parameters) = {}

\* project.parameters ? JSON.parse(project.parameters) : {}, read at
\* .continueNarrative (undefined is falsy).
ContinueNarrative(project) ==
  IF project.parameters = Null THEN FALSE
  ELSE \E parameters \in JSONparse(project.parameters) :
         parameters.continueNarrative

\* Mutant of handleChapterContentResponse: the save rewrites the order too.
SaveContentAndOrder(d, response, chapterId, failAt) ==
  [db |-> updateChapter(d, chapterId, [content |-> response, order |-> 0], failAt).db,
   result |-> TRUE]

\* await updateChapter(chapterId, {content: response}); return true.  The
\* value updateChapter returns is dropped, and updateChapter does not throw.
handleChapterContentResponse(d, response, chapterId, failAt) ==
  [db |-> updateChapter(d, chapterId, [content |-> response], failAt).db,
   result |-> TRUE]

\* allChapters.findIndex(c => c.id === startChapterId), 1-based; 0 is -1.
FindIndex(list, id) ==
  IF \E i \in 1..Len(list) : list[i].id = id
    THEN CHOOSE i \in 1..Len(list) :
           list[i].id = id /\ \A j \in 1..(i - 1) : list[j].id # id
    ELSE 0

\* content || null: the empty text counts as none.
OrNull(content) == IF content = "" THEN Null ELSE content

\* Mutant of SequenceLoop: the first chapter the provider fails on ends the loop.
RECURSIVE SequenceLoopAborting(_, _, _, _, _, _)
SequenceLoopAborting(d, allChapters, i, continueNarrative, steps, acc) ==
  IF i > Len(allChapters) THEN [db |-> d, result |-> acc.success, attempts |-> acc.attempts]
  ELSE LET currentChapter == allChapters[i]
           contextContent == IF continueNarrative /\ i > 1
                               THEN OrNull(allChapters[i - 1].content) ELSE Null
           attempts == Append(acc.attempts,
                              [id |-> currentChapter.id, context |-> contextContent])
           saved == handleChapterContentResponse(d, steps[i].response,
                                                 currentChapter.id, steps[i].failAt)
       IN IF steps[i].response # Null
            THEN SequenceLoopAborting(saved.db,
                   [allChapters EXCEPT ![i].content = steps[i].response],
                   i + 1, continueNarrative, steps,
                   [success |-> acc.success /\ saved.result, attempts |-> attempts])
            ELSE [db |-> d, result |-> FALSE, attempts |-> attempts]

\* The loop without currentChapter.content = contentResponse: the list keeps
\* the contents it was read with.
RECURSIVE SequenceLoopListAsRead(_, _, _, _, _, _)
SequenceLoopListAsRead(d, allChapters, i, continueNarrative, steps, acc) ==
  IF i > Len(allChapters) THEN [db |-> d, result |-> acc.success, attempts |-> acc.attempts]
  ELSE LET currentChapter == allChapters[i]
           contextContent == IF continueNarrative /\ i > 1
                               THEN OrNull(allChapters[i - 1].content) ELSE Null
           attempts == Append(acc.attempts,
                              [id |-> currentChapter.id, context |-> contextContent])
           saved == handleChapterContentResponse(d, steps[i].response,
                                                 currentChapter.id, steps[i].failAt)
       IN IF steps[i].response # Null
            THEN SequenceLoopListAsRead(saved.db, allChapters,
                   i + 1, continueNarrative, steps,
                   [success |-> acc.success /\ saved.result, attempts |-> attempts])
            ELSE SequenceLoopListAsRead(d, allChapters, i + 1, continueNarrative, steps,
                   [success |-> FALSE, attempts |-> attempts])

\* for (let i = startChapterIndex; i < allChapters.length; i++): steps[i] is
\* what happens at chapter i, the provider's answer (Null: none) and the store
\* call of the save that throws (0: none).  attempts logs each prompt: the
\* chapter it is for and the previous chapter's content given as context.
RECURSIVE SequenceLoop(_, _, _, _, _, _)
SequenceLoop(d, allChapters, i, continueNarrative, steps, acc) ==
  IF i > Len(allChapters) THEN [db |-> d, result |-> acc.success, attempts |-> acc.attempts]
  ELSE LET currentChapter == allChapters[i]
           contextContent == IF continueNarrative /\ i > 1
                               THEN OrNull(allChapters[i - 1].content) ELSE Null
           attempts == Append(acc.attempts,
                              [id |-> currentChapter.id, context |-> contextContent])
           saved == handleChapterContentResponse(d, steps[i].response,
                                                 currentChapter.id, steps[i].failAt)
       IN IF steps[i].response # Null
            THEN SequenceLoop(saved.db,
                   [allChapters EXCEPT ![i].content = steps[i].response],
                   i + 1, continueNarrative, steps,
                   [success |-> acc.success /\ saved.result, attempts |-> attempts])
            ELSE SequenceLoop(d, allChapters, i + 1, continueNarrative, steps,
                   [success |-> FALSE, attempts |-> attempts])

\* project is what getProjectById returned and allChapters what
\* getChaptersByProjectId returned; started tells whether the loop was entered.
\* A JSON.parse that throws is caught by the catch around the whole body.
generateChapterSequenceContent(d0, project, allChapters, startChapterId, steps) ==
  LET d == initializeDatabase(d0)
      startChapterIndex == FindIndex(allChapters, startChapterId)
  IN IF \/ project = {}
        \/ \E p \in project : ParametersThrow(p)
        \/ startChapterIndex = 0
       THEN [db |-> d, result |-> FALSE, attempts |-> <<>>, started |-> FALSE]
       ELSE LET r == SequenceLoop(d, allChapters, startChapterIndex,
                                  \E p \in project : ContinueNarrative(p), steps,
                                  [success |-> TRUE, attempts |-> <<>>])
            IN [db |-> r.db, result |-> r.result, attempts |-> r.attempts,
                started |-> TRUE]

\* What can happen at one chapter of the loop.
StepOutcomes ==
  {[response |-> Null, failAt |-> 0]}
    \cup [response : Generated, failAt : 0..2]

\* The outcomes of a run over list from position start on (the positions
\* before it are not visited).
StepsFrom(list, start) ==
  {st \in [1..Len(list) -> StepOutcomes] :
     \A i \in 1..Len(list) : i < start => st[i] = [response |-> Null, failAt |-> 0]}

SeqCreateProject ==
  /\ Idle
  /\ db.seq.projects = 0
  /\ \E parameters \in ParameterTexts :
       LET r == createProject(db, "P", Null, parameters, 0)
       IN /\ db' = r.db
          /\ last' = [op |-> "createProject", pre |-> db, result |-> r.result]
  /\ UNCHANGED appVars

SeqCreateChapter ==
  /\ Idle
  /\ db.seq.chapters < MaxSeqChapters
  /\ \E projectId \in ProjectIds(db) :
       LET r == createChapter(db, projectId, <<"T">>, <<"D">>, Null, 0)
       IN /\ db' = r.db
          /\ last' = [op |-> "createChapter", pre |-> db, projectId |-> projectId,
                      result |-> r.result]
  /\ UNCHANGED appVars

\* A reorder of the project's chapters, so that list order and id order differ.
SeqReorder ==
  /\ Idle
  /\ \E projectId \in ProjectIds(db) :
       \E s \in Arrangements(ChaptersOf(db, projectId)) :
         LET r == updateChapterOrder(db, IndexUpdates(s), 0)
         IN /\ Len(s) > 1
            /\ db' = r.db
            /\ last' = [op |-> "updateChapterOrder", pre |-> db,
                        updates |-> IndexUpdates(s), failAt |-> 0, result |-> r.result]
  /\ UNCHANGED appVars

GenerateChapterSequenceContent ==
  /\ Idle
  /\ \E projectId \in 1..MaxProjects, startChapterId \in 1..MaxSeqChapters,
        failProject \in 0..1, failList \in 0..1 :
       \E allChapters \in getChaptersByProjectId(db, projectId, failList) :
         \E steps \in StepsFrom(allChapters,
                                IF getProjectById(db, projectId, failProject) = {}
                                  THEN Len(allChapters) + 1
                                  ELSE IF FindIndex(allChapters, startChapterId) = 0
                                         THEN Len(allChapters) + 1
                                         ELSE FindIndex(allChapters, startChapterId)) :
           LET r == generateChapterSequenceContent(db,
                      getProjectById(db, projectId, failProject),
                      allChapters, startChapterId, steps)
           IN /\ db' = r.db
              /\ last' = [op |-> "generateChapterSequenceContent", pre |-> db,
                          projectId |-> projectId, startChapterId |-> startChapterId,
                          allChapters |-> allChapters, steps |-> steps,
                          attempts |-> r.attempts, started |-> r.started,
                          result |-> r.result]
  /\ UNCHANGED appVars

NextSeq ==
  \/ SeqCreateProject
  \/ SeqCreateChapter
  \/ SeqReorder
  \/ GenerateChapterSequenceContent
  \/ Return

SpecSeq == Init /\ [][NextSeq]_vars

(***************************************************************************)
(* Claims on the sequence workflow (specification SpecSeq).                *)
(***************************************************************************)
\* The recorded call is a generateChapterSequenceContent that entered its loop.
SequenceRan == last.op = "generateChapterSequenceContent" /\ last.started

\* The position of the start chapter in the list of the recorded call.
StartIndex == FindIndex(last.allChapters, last.startChapterId)

\* The content chapter id has in store d.
ContentIn(d, id) == (CHOOSE c \in d.chapters : c.id = id).content

\* C1: generateChapterSequenceContent prompts once for each chapter from the
\* start chapter's position to the end of the ordered list, in list order,
\* whatever the provider answers; a chapter the provider gives nothing for
\* keeps its stored content and makes the call return false, a later chapter
\* the provider gives text for has that text stored, and the chapters before
\* the start position are left alone.
C1_SequenceVisitsEveryChapterOnce ==
  SequenceRan =>
    LET list == last.allChapters
        n == Len(list)
    IN /\ Len(last.attempts) = n - StartIndex + 1
       /\ \A k \in 1..Len(last.attempts) :
            last.attempts[k].id = list[StartIndex + k - 1].id
       /\ \A i \in StartIndex..n :
            /\ last.steps[i].response = Null
                 => ContentIn(db, list[i].id) = ContentIn(last.pre, list[i].id)
            /\ (last.steps[i].response # Null /\ last.steps[i].failAt # 1)
                 => ContentIn(db, list[i].id) = last.steps[i].response
       /\ \A i \in 1..(StartIndex - 1) :
            ContentIn(db, list[i].id) = ContentIn(last.pre, list[i].id)
       /\ (\E i \in StartIndex..n : last.steps[i].response = Null)
            => last.result = FALSE

\* C1 witness: three chapters, start at the second; the provider gives nothing
\* for the second, which keeps the content an earlier run gave it, and text
\* for the third, which had none and has that text stored; the call returned
\* false.
C1_Witness ==
  /\ SequenceRan
  /\ Len(last.allChapters) = 3
  /\ StartIndex = 2
  /\ last.steps[2].response = Null
  /\ last.steps[3] = [response |-> "g", failAt |-> 0]
  /\ ContentIn(last.pre, last.allChapters[2].id) = "g"
  /\ ContentIn(db, last.allChapters[2].id) = "g"
  /\ ContentIn(last.pre, last.allChapters[3].id) = Null
  /\ ContentIn(db, last.allChapters[3].id) = "g"
  /\ last.result = FALSE

\* C2: generateChapterSequenceContent returns true only if, at every chapter
\* from the start position on, the provider gave text and the UPDATE storing
\* it did not throw.
C2_TrueOnlyIfEveryStepWritten ==
  (SequenceRan /\ last.result = TRUE) =>
    \A i \in StartIndex..Len(last.allChapters) :
      last.steps[i].response # Null /\ last.steps[i].failAt # 1

\* The continue-narrative flag of the project of the recorded call.
FlagOfRun ==
  \E p \in last.pre.projects : p.id = last.projectId /\ ContinueNarrative(p)

\* C19: the context handed to the prompt of the chapter at list position i is
\* absent when the project's continue-narrative flag is unset or the chapter
\* is the first of the list; otherwise it is the content of the chapter
\* before it: the text the provider gave for that chapter earlier in this run
\* when it gave one, else the content it had when the list was read.  An
\* absent context does not fail the step: the chapter is prompted for, and
\* the text the provider gives is stored.
C19_ContextIsPreviousContent ==
  SequenceRan =>
    LET list == last.allChapters
    IN /\ Len(last.attempts) = Len(list) - StartIndex + 1
       /\ \A k \in 1..Len(last.attempts) :
            LET i == StartIndex + k - 1
            IN /\ last.attempts[k].context =
                    IF ~FlagOfRun \/ i = 1 THEN Null
                    ELSE IF i - 1 >= StartIndex /\ last.steps[i - 1].response # Null
                      THEN last.steps[i - 1].response
                    ELSE OrNull(list[i - 1].content)
               /\ (last.attempts[k].context = Null
                     /\ last.steps[i].response # Null /\ last.steps[i].failAt = 0)
                    => ContentIn(db, list[i].id) = last.steps[i].response
       /\ (\A i \in StartIndex..Len(list) : last.steps[i].response # Null)
            => last.result = TRUE

\* C19 witness: the flag is set, three chapters without content, start at the
\* second: its prompt has no context and its text is stored; the third's
\* prompt has the text just generated for the second as context; the call
\* returned true.
C19_Witness ==
  /\ SequenceRan
  /\ FlagOfRun
  /\ Len(last.allChapters) = 3
  /\ StartIndex = 2
  /\ \A i \in 1..3 : last.allChapters[i].content = Null
  /\ last.steps[2] = [response |-> "g", failAt |-> 0]
  /\ last.steps[3] = [response |-> "g", failAt |-> 0]
  /\ last.attempts[1].context = Null
  /\ ContentIn(db, last.allChapters[2].id) = "g"
  /\ last.attempts[2].context = "g"
  /\ last.result = TRUE

(***************************************************************************)
(* chatService (src/services/chatService.ts) and the file round trip of    *)
(* src/lib/database.ts.                                                    *)
(***************************************************************************)
MaxStoreRows == 3

\* INSERT INTO messages (projectId, chapterId, role, content) VALUES (...)
InsertMessage(d, projectId, chapterId, role, content) ==
  LET id == d.seq.messages + 1
      row == [id |-> id, projectId |-> projectId, chapterId |-> chapterId,
              role |-> role, content |-> content]
  IN [d EXCEPT !.messages = @ \cup {row}, !.seq.messages = id, !.rowid = id]

SelectMessage(d, id) == {m \in d.messages : m.id = id}

\* Store calls: 1 the INSERT, 2 the read-back through last_insert_rowid().
\* chapterId ?? null: NullId stands for a message on no chapter.
addMessage(d0, projectId, role, content, chapterId, failAt) ==
  LET d == initializeDatabase(d0)
      d2 == InsertMessage(d, projectId, chapterId, role, content)
  IN CASE failAt = 1 -> [db |-> d, result |-> {}]
       [] failAt = 2 -> [db |-> d2, result |-> {}]
       [] OTHER -> [db |-> d2, result |-> SelectMessage(d2, d2.rowid)]

\* currentDb.export(): the database file, the three tables and the
\* AUTOINCREMENT counters kept in sqlite_sequence.
Export(d) ==
  [kind |-> "sqlite", projects |-> d.projects, chapters |-> d.chapters,
   messages |-> d.messages, seq |-> d.seq]

\* new SQL.Database(data): a new connection on the file's content; nothing
\* has been inserted on it yet.
Open(data) ==
  [open |-> TRUE, projects |-> data.projects, chapters |-> data.chapters,
   messages |-> data.messages, seq |-> data.seq, rowid |-> 0]

\* failAt = 1: export() throws, answered with null ({}).
exportDatabase(d0, failAt) ==
  LET d == initializeDatabase(d0)
  IN IF failAt = 1 THEN [db |-> d, result |-> {}]
     ELSE [db |-> d, result |-> {Export(d)}]

\* Mutant of loadDatabaseFromFile: a database that is open is kept, as
\* initializeDatabase keeps it.
LoadUnlessOpen(d0, data, failAt) ==
  IF failAt = 1 THEN [db |-> NullDb, result |-> FALSE]
  ELSE [db |-> IF d0.open THEN d0 ELSE Open(data), result |-> TRUE]

\* Mutant of loadDatabaseFromFile: a load that fails keeps the database that
\* was open.
LoadKeepingOnFailure(d0, data, failAt) ==
  IF failAt = 1 THEN [db |-> d0, result |-> FALSE]
  ELSE [db |-> Open(data), result |-> TRUE]

\* The open database is closed and replaced by one made of data.  failAt = 1:
\* making it throws (or, with no database yet, sql.js cannot be set up), db is
\* null and the answer is false.
loadDatabaseFromFile(d0, data, failAt) ==
  IF failAt = 1 THEN [db |-> NullDb, result |-> FALSE]
  ELSE [db |-> Open(data), result |-> TRUE]

\* The rows ever inserted, over the three tables.
RowsInserted(d) == d.seq.projects + d.seq.chapters + d.seq.messages

StoreCreateProject ==
  /\ Idle
  /\ RowsInserted(db) < MaxStoreRows
  /\ LET r == createProject(db, "P", Null, Null, 0)
     IN /\ db' = r.db
        /\ last' = [op |-> "createProject", pre |-> db, result |-> r.result]
  /\ UNCHANGED appVars

StoreCreateChapter ==
  /\ Idle
  /\ RowsInserted(db) < MaxStoreRows
  /\ \E projectId \in ProjectIds(db) :
       LET r == createChapter(db, projectId, <<"T">>, <<"D">>, Null, 0)
       IN /\ db' = r.db
          /\ last' = [op |-> "createChapter", pre |-> db, projectId |-> projectId,
                      result |-> r.result]
  /\ UNCHANGED appVars

\* A chat message on a project, about one of its chapters or about none.
AddMessage ==
  /\ Idle
  /\ RowsInserted(db) < MaxStoreRows
  /\ \E projectId \in ProjectIds(db), failAt \in 0..2 :
       \E chapterId \in {NullId} \cup {c.id : c \in ChaptersOf(db, projectId)} :
         LET r == addMessage(db, projectId, "user", "m", chapterId, failAt)
         IN /\ db' = r.db
            /\ last' = [op |-> "addMessage", pre |-> db, result |-> r.result]
  /\ UNCHANGED appVars

DeleteProject ==
  /\ Idle
  /\ \E id \in ProjectIds(db), failAt \in 0..1 :
       LET r == deleteProject(db, id, failAt)
       IN /\ db' = r.db
          /\ last' = [op |-> "deleteProject", pre |-> db, id |-> id,
                      result |-> r.result]
  /\ UNCHANGED appVars

StoreDeleteChapter ==
  /\ Idle
  /\ \E id \in ChapterIds(db), failAt \in 0..1 :
       LET r == deleteChapter(db, id, failAt)
       IN /\ db' = r.db
          /\ last' = [op |-> "deleteChapter", pre |-> db, id |-> id,
                      result |-> r.result]
  /\ UNCHANGED appVars

\* "Save Project to File": the exported bytes become the file.
ExportDatabase ==
  /\ Idle
  /\ \E failAt \in 0..1 :
       LET r == exportDatabase(db, failAt)
       IN /\ db' = r.db
          /\ file' = IF r.result = {} THEN file ELSE CHOOSE data \in r.result : TRUE
          /\ last' = [op |-> "exportDatabase", pre |-> db, result |-> r.result]
  /\ UNCHANGED <<chapters, trail, settings, tasks, engine>>

\* "Load Project from File" on the file saved before.
LoadDatabaseFromFile ==
  /\ Idle
  /\ file # NoFile
  /\ \E failAt \in 0..1 :
       LET r == loadDatabaseFromFile(db, file, failAt)
       IN /\ db' = r.db
          /\ last' = [op |-> "loadDatabaseFromFile", pre |-> db, result |-> r.result]
  /\ UNCHANGED appVars

NextStore ==
  \/ StoreCreateProject
  \/ StoreCreateChapter
  \/ AddMessage
  \/ DeleteProject
  \/ StoreDeleteChapter
  \/ ExportDatabase
  \/ LoadDatabaseFromFile
  \/ Return

SpecStore == Init /\ [][NextStore]_vars

(***************************************************************************)
(* Claims on deletion and on the file round trip (specification SpecStore).*)
(***************************************************************************)
\* C8: after a successful deleteProject(p) the store holds no chapter and no
\* message whose projectId is p; after a successful deleteChapter(c) it holds
\* no message whose chapterId is c.
C8_DeleteCascades ==
  /\ (last.op = "deleteProject" /\ last.result = TRUE) =>
       /\ \A c \in db.chapters : c.projectId # last.id
       /\ \A m \in db.messages : m.projectId # last.id
  /\ (last.op = "deleteChapter" /\ last.result = TRUE) =>
       \A m \in db.messages : m.chapterId # last.id

\* What a store or a file holds: the rows of the three tables.
Rows(x) == <<x.projects, x.chapters, x.messages>>

\* C9: a successful exportDatabase yields a file holding exactly the store's
\* projects, chapters and messages, and a successful loadDatabaseFromFile of
\* that file leaves the store holding exactly the file's rows (and its id
\* counters), whatever the store held before the load.
C9_ExportLoadRoundTrip ==
  /\ (last.op = "exportDatabase" /\ last.result # {}) =>
       /\ Rows(file) = Rows(db)
       /\ Rows(db) = Rows(initializeDatabase(last.pre))
       /\ file.seq = db.seq
  /\ (last.op = "loadDatabaseFromFile" /\ last.result = TRUE) =>
       /\ Rows(db) = Rows(file)
       /\ db.seq = file.seq

\* C9 witness: a file holding a project, a chapter and a message is loaded
\* over a store that no longer held the same rows.
C9_Witness ==
  /\ last.op = "loadDatabaseFromFile"
  /\ last.result = TRUE
  /\ file.projects # {} /\ file.chapters # {} /\ file.messages # {}
  /\ Rows(last.pre) # Rows(file)
  /\ Rows(db) = Rows(file)

(***************************************************************************)
(* llmService: the plan parser (src/services/llmService.ts).  Text is a    *)
(* sequence of characters.                                                 *)
(***************************************************************************)
MaxPlanLines == 4

\* The characters String.prototype.trim and \s take for white space, as far
\* as the texts of the model use them.
WhiteSpace == {" ", "\t"}

DigitChars == <<"0", "1", "2", "3", "4", "5", "6", "7", "8", "9">>

Digits == {DigitChars[i] : i \in 1..10}

ChapterWord == <<"C", "h", "a", "p", "t", "e", "r">>

DescriptionWord == <<"D", "e", "s", "c", "r", "i", "p", "t", "i", "o", "n", ":">>

\* response.split('\n')
RECURSIVE Split(_)
Split(text) ==
  IF \E k \in 1..Len(text) : text[k] = "\n"
    THEN LET k == CHOOSE k \in 1..Len(text) :
                    text[k] = "\n" /\ \A j \in 1..(k - 1) : text[j] # "\n"
         IN <<SubSeq(text, 1, k - 1)>> \o Split(SubSeq(text, k + 1, Len(text)))
    ELSE <<text>>

\* lines.join('\n'), the text a list of lines makes.
RECURSIVE Join(_)
Join(lines) ==
  IF Len(lines) = 0 THEN <<>>
  ELSE IF Len(lines) = 1 THEN lines[1]
  ELSE lines[1] \o <<"\n">> \o Join(Tail(lines))

\* The first position from i on that holds no character of set (Len + 1 when
\* there is none).
Skip(text, i, set) ==
  IF \E j \in i..Len(text) : text[j] \notin set
    THEN CHOOSE j \in i..Len(text) :
           text[j] \notin set /\ \A k \in i..(j - 1) : text[k] \in set
    ELSE Len(text) + 1

\* String.prototype.trim
Trim(text) ==
  LET first == Skip(text, 1, WhiteSpace)
  IN IF first > Len(text) THEN <<>>
     ELSE LET last1 == CHOOSE j \in first..Len(text) :
                         text[j] \notin WhiteSpace
                           /\ \A k \in (j + 1)..Len(text) : text[k] \in WhiteSpace
          IN SubSeq(text, first, last1)

\* String.prototype.startsWith
StartsWith(text, prefix) ==
  Len(text) >= Len(prefix) /\ SubSeq(text, 1, Len(prefix)) = prefix

\* line.match(/^Chapter\s+\d+:\s*(.*)/): no match ({}) or the text captured.
TitleMatch(line) ==
  IF ~StartsWith(line, ChapterWord) THEN {}
  ELSE LET afterSpace == Skip(line, Len(ChapterWord) + 1, WhiteSpace)
           afterDigits == Skip(line, afterSpace, Digits)
       IN IF /\ afterSpace > Len(ChapterWord) + 1
             /\ afterDigits > afterSpace
             /\ afterDigits <= Len(line)
             /\ line[afterDigits] = ":"
            THEN {SubSeq(line, Skip(line, afterDigits + 1, WhiteSpace), Len(line))}
            ELSE {}

UntitledChapter ==
  <<"U", "n", "t", "i", "t", "l", "e", "d", " ", "C", "h", "a", "p", "t", "e", "r">>

\* currentChapter = {}: no title, which is falsy like the empty title.
NoDraft == [title |-> <<>>, description |-> <<>>, content |-> "", order |-> 0]

\* The loop body without its last branch: a line that is neither a header
\* nor a marker is dropped.
ParseLineMarkersOnly(st, line) ==
  LET trimmedLine == Trim(line)
      cur == st.currentChapter
  IN IF StartsWith(trimmedLine, ChapterWord)
       THEN LET pushed == IF st.isDescription /\ cur.title # <<>>
                            THEN Append(st.chapters, cur) ELSE st.chapters
                titleMatch == TitleMatch(trimmedLine)
            IN [chapters |-> pushed,
                currentChapter |->
                  [title |-> IF titleMatch # {}
                               THEN Trim(CHOOSE t \in titleMatch : TRUE)
                               ELSE UntitledChapter,
                   description |-> <<>>, content |-> "", order |-> Len(pushed)],
                isDescription |-> FALSE]
     ELSE IF StartsWith(trimmedLine, DescriptionWord) /\ cur.title # <<>>
       THEN [st EXCEPT
               !.currentChapter.description =
                  Trim(SubSeq(trimmedLine, Len(DescriptionWord) + 1,
                              Len(trimmedLine))),
               !.isDescription = TRUE]
     ELSE st

\* The body of for (const line of lines): st holds chapters, currentChapter
\* and isDescription.
ParseLine(st, line) ==
  LET trimmedLine == Trim(line)
      cur == st.currentChapter
  IN IF StartsWith(trimmedLine, ChapterWord)
       THEN LET pushed == IF st.isDescription /\ cur.title # <<>>
                            THEN Append(st.chapters, cur) ELSE st.chapters
                titleMatch == TitleMatch(trimmedLine)
            IN [chapters |-> pushed,
                currentChapter |->
                  [title |-> IF titleMatch # {}
                               THEN Trim(CHOOSE t \in titleMatch : TRUE)
                               ELSE UntitledChapter,
                   description |-> <<>>, content |-> "", order |-> Len(pushed)],
                isDescription |-> FALSE]
     ELSE IF StartsWith(trimmedLine, DescriptionWord)
       THEN IF cur.title # <<>>
              THEN [st EXCEPT
                      !.currentChapter.description =
                         Trim(SubSeq(trimmedLine, Len(DescriptionWord) + 1,
                                     Len(trimmedLine))),
                      !.isDescription = TRUE]
              ELSE st
     ELSE IF st.isDescription /\ cur.title # <<>>
       THEN [st EXCEPT !.currentChapter.description = @ \o <<" ">> \o trimmedLine]
     ELSE st

RECURSIVE ParseLines(_, _, _)
ParseLines(st, lines, i) ==
  IF i > Len(lines) THEN st ELSE ParseLines(ParseLine(st, lines[i]), lines, i + 1)

\* No filter: every draft pushed is returned.
KeepAllDrafts(chaps) == chaps

\* chapters.filter(c => c.title && c.description)
SelectSeq2(chaps) ==
  LET Valid(c) == c.title # <<>> /\ c.description # <<>>
  IN SelectSeq(chaps, Valid)

\* The drafts parsed from response, or null ({}).
parseEbookPlanResponse(response) ==
  LET st == ParseLines([chapters |-> <<>>, currentChapter |-> NoDraft,
                        isDescription |-> FALSE], Split(response), 1)
      chaps == IF st.currentChapter.title # <<>>
                 THEN Append(st.chapters, st.currentChapter) ELSE st.chapters
      validChapters == SelectSeq2(chaps)
  IN IF Len(validChapters) > 0 THEN {validChapters} ELSE {}

\* 'Chapter N: T' and 'Description: D'.
HeaderLine(n, title) == ChapterWord \o <<" ", DigitChars[n + 1], ":", " ">> \o title

DescriptionLine(description) == DescriptionWord \o <<" ">> \o description

\* The blocks of the plans tried: Intro / Sets the stage, Middle / Builds
\* tension, in short.
PlanBlocks ==
  <<[title |-> <<"I", "n">>, description |-> <<"S", "e", "t", "s", ".">>],
    [title |-> <<"M", "i">>, description |-> <<"B", "u", "i", "l", "d", "s", ".">>]>>

\* The lines of the first n blocks, a blank line between two blocks.
RECURSIVE BlockLines(_)
BlockLines(n) ==
  IF n = 0 THEN <<>>
  ELSE (IF n = 1 THEN <<>> ELSE BlockLines(n - 1) \o <<<<>>>>)
         \o <<HeaderLine(n, PlanBlocks[n].title),
              DescriptionLine(PlanBlocks[n].description)>>

\* The lines the responses tried are made of: the headers and descriptions
\* of the blocks, a blank line, a line of plain text, an indented header
\* without a number (' Chapter: X') and a marker without text.
PlanLines ==
  {HeaderLine(n, PlanBlocks[n].title) : n \in 1..Len(PlanBlocks)}
    \cup {DescriptionLine(PlanBlocks[n].description) : n \in 1..Len(PlanBlocks)}
    \cup {<<>>, <<"m", "o", "r", "e">>,
          <<" ">> \o ChapterWord \o <<":", " ", "X">>, DescriptionWord}

\* The lists of n of these lines.
LineLists(n) == [1..n -> PlanLines]

\* The provider has answered a plan prompt: with the text of one to
\* MaxPlanLines of the lines above, or with a plan of one or more blocks.
InitParse ==
  /\ db = NullDb
  /\ chapters = <<>>
  /\ file = NoFile
  /\ trail = CleanTrail
  /\ settings = NoSettings
  /\ tasks = NoTasks
  /\ engine = NoEngine
  /\ \/ \E n \in 1..MaxPlanLines : \E lines \in LineLists(n) :
          last = [op |-> "processLLMPrompt", response |-> Join(lines)]
     \/ \E n \in 1..Len(PlanBlocks) :
          last = [op |-> "processLLMPrompt", response |-> Join(BlockLines(n))]

ParseEbookPlanResponse ==
  /\ last.op = "processLLMPrompt"
  /\ last' = [op |-> "parseEbookPlanResponse", response |-> last.response,
              result |-> parseEbookPlanResponse(last.response)]
  /\ UNCHANGED <<db, chapters, file, trail, settings, tasks, engine>>

NextParse == ParseEbookPlanResponse

SpecParse == InitParse /\ [][NextParse]_vars

(***************************************************************************)
(* Claims on the plan parser (specification SpecParse).                    *)
(***************************************************************************)
\* The drafts the blocks 1..n stand for: title, description, 0-based position.
ExpectedDrafts(n) ==
  [k \in 1..n |-> [title |-> PlanBlocks[k].title,
                   description |-> PlanBlocks[k].description, order |-> k - 1]]

\* A draft without its content.
Outline(draft) ==
  [title |-> draft.title, description |-> draft.description, order |-> draft.order]

\* C10: for a response made of blocks 'Chapter N: T' / 'Description: D' with
\* a blank line between blocks, parseEbookPlanResponse returns one draft per
\* block, in input order, with title exactly T, description exactly D and
\* order its 0-based position.
C10_BlocksParseExactly ==
  \A n \in 1..Len(PlanBlocks) :
    (last.op = "parseEbookPlanResponse" /\ last.response = Join(BlockLines(n))) =>
      \E drafts \in last.result :
        [k \in 1..Len(drafts) |-> Outline(drafts[k])] = ExpectedDrafts(n)

\* The response read line by line, each line trimmed.
TrimmedLines(response) ==
  LET lines == Split(response) IN [i \in 1..Len(lines) |-> Trim(lines[i])]

\* The positions of the lines that begin with 'Chapter'.
Headers(lines) ==
  {i \in 1..Len(lines) :
     StartsWith(lines[i], ChapterWord)}

\* The last line of the draft the header at h starts: the line before the
\* next header, or the last line of the input.
DraftEnd(lines, h) ==
  LET later == {i \in Headers(lines) : i > h}
  IN IF later = {} THEN Len(lines)
     ELSE (CHOOSE i \in later : \A j \in later : i <= j) - 1

\* The title of the draft at header h, as the parser takes it.
DraftTitle(lines, h) ==
  LET titleMatch == TitleMatch(lines[h])
  IN IF titleMatch = {} THEN UntitledChapter
     ELSE Trim(CHOOSE t \in titleMatch : TRUE)

\* The positions of the 'Description:' lines of the draft at header h that
\* count: none when the draft has no title.
Markers(lines, h) ==
  IF DraftTitle(lines, h) = <<>> THEN {}
  ELSE {i \in (h + 1)..DraftEnd(lines, h) :
          StartsWith(lines[i], DescriptionWord)}

\* The last of them.
LastMarker(lines, h) ==
  CHOOSE m \in Markers(lines, h) : \A j \in Markers(lines, h) : j <= m

\* The text after that marker, trimmed.
MarkerText(lines, h) ==
  LET line == lines[LastMarker(lines, h)]
  IN Trim(SubSeq(line, Len(DescriptionWord) + 1, Len(line)))

\* lines[from..to], each after one space, put one after the other.
RECURSIVE SpaceJoined(_, _, _)
SpaceJoined(lines, from, to) ==
  IF from > to THEN <<>>
  ELSE <<" ">> \o lines[from] \o SpaceJoined(lines, from + 1, to)

\* The description of the draft at header h: none without a marker, else the
\* marker's text and the lines after it.
DraftDescription(lines, h) ==
  IF Markers(lines, h) = {} THEN <<>>
  ELSE MarkerText(lines, h)
         \o SpaceJoined(lines, LastMarker(lines, h) + 1,
                        DraftEnd(lines, h))

\* The headers whose draft has a title and a description.
FullDrafts(lines) ==
  {h \in Headers(lines) :
     DraftTitle(lines, h) # <<>> /\ DraftDescription(lines, h) # <<>>}

\* A set of positions in ascending order.
Ascending(S) ==
  CHOOSE seq \in [1..Cardinality(S) -> S] :
    \A i, j \in 1..Cardinality(S) : i < j => seq[i] < seq[j]

Parsed == last.op = "parseEbookPlanResponse"

\* C11: parseEbookPlanResponse returns null exactly when no draft of the
\* input has both a title and a description (an input without any 'Chapter'
\* line included), never an empty list; otherwise it returns the drafts that
\* have both, all of them and no other, in their order in the input.
C11_NullIffNoFullDraft ==
  LET lines == TrimmedLines(last.response)
  IN Parsed =>
       LET full == FullDrafts(lines)
       IN /\ (last.result = {}) <=> (full = {})
          /\ \A drafts \in last.result :
               /\ Len(drafts) = Cardinality(full)
               /\ Len(drafts) > 0
               /\ \A k \in 1..Len(drafts) :
                    /\ drafts[k].title = DraftTitle(lines, Ascending(full)[k])
                    /\ drafts[k].description =
                         DraftDescription(lines, Ascending(full)[k])

\* C11 witness: two drafts in the input, the first with a title and a marker
\* without text, the second with a title and a description: the parser
\* returned the second alone.
C11_Witness ==
  LET lines == TrimmedLines(last.response)
  IN /\ Parsed
     /\ Cardinality(Headers(lines)) = 2
     /\ Cardinality(FullDrafts(lines)) = 1
     /\ LET first == Ascending(Headers(lines))[1]
        IN /\ first \notin FullDrafts(lines)
           /\ Markers(lines, first) # {}
     /\ \E drafts \in last.result : Len(drafts) = 1

\* C11 witness of the null case: headers and a marker in the input, but no
\* draft with both a title and a description.
C11_WitnessNull ==
  LET lines == TrimmedLines(last.response)
  IN /\ Parsed
     /\ Headers(lines) # {}
     /\ \E h \in Headers(lines) : Markers(lines, h) # {}
     /\ last.result = {}

\* C12: every trimmed line that begins with 'Chapter' starts a draft whose
\* title is the trimmed text after the first colon of the line, whatever
\* stands between 'Chapter' and the colon; the title is 'Untitled Chapter'
\* only when the line has no colon.  Stated for the inputs with one header
\* line, whose draft is the one returned.
AfterFirstColon(line) ==
  LET colon == Skip(line, 1, {line[i] : i \in 1..Len(line)} \ {":"})
  IN Trim(SubSeq(line, colon + 1, Len(line)))

HasColon(line) == \E i \in 1..Len(line) : line[i] = ":"

C12_TitleFollowsFirstColon ==
  LET lines == TrimmedLines(last.response)
  IN (Parsed /\ Cardinality(Headers(lines)) = 1) =>
       LET header == lines
                       [CHOOSE h \in Headers(lines) : TRUE]
       IN \A drafts \in last.result :
            /\ HasColon(header) => drafts[1].title = AfterFirstColon(header)
            /\ drafts[1].title = UntitledChapter => ~HasColon(header)

\* C13: in every list parseEbookPlanResponse returns, the draft at position
\* i (from 0) has order i, also when an earlier draft was filtered out.
C13_OrderIsFilteredIndex ==
  Parsed =>
    \A drafts \in last.result :
      \A k \in 1..Len(drafts) : drafts[k].order = k - 1

\* The lines of the draft at header h after its last marker.
Continuation(lines, h) ==
  (LastMarker(lines, h) + 1)..DraftEnd(lines, h)

\* C14: once a draft has its 'Description:' line, every following non-empty
\* line up to the next header or the end of the input is appended to the
\* description after one space, in input order: for a draft whose lines after
\* the marker are all non-empty, the description returned is the marker's text
\* and these lines, one space between each two.
C14_LinesJoinDescription ==
  LET lines == TrimmedLines(last.response)
  IN Parsed =>
       \A drafts \in last.result :
         \A k \in 1..Len(drafts) :
           LET h == Ascending(FullDrafts(lines))[k]
           IN (\A i \in Continuation(lines, h) :
                 lines[i] # <<>>) =>
                drafts[k].description =
                  MarkerText(lines, h)
                    \o SpaceJoined(lines,
                                   LastMarker(lines, h) + 1,
                                   DraftEnd(lines, h))

\* C14 witness: 'Chapter 1: In / Description: Sets. / more / more' gave one
\* draft with description 'Sets. more more'.
C14_Witness ==
  /\ Parsed
  /\ last.response =
       Join(<<HeaderLine(1, PlanBlocks[1].title),
              DescriptionLine(PlanBlocks[1].description),
              <<"m", "o", "r", "e">>, <<"m", "o", "r", "e">>>>)
  /\ \E drafts \in last.result :
       /\ Len(drafts) = 1
       /\ drafts[1].description =
            <<"S", "e", "t", "s", ".", " ", "m", "o", "r", "e", " ",
              "m", "o", "r", "e">>

(***************************************************************************)
(* ChapterManager (src/components/ChapterManager.tsx) on the open project, *)
(* project 1; chapters is the list App holds and hands to ChapterManager,  *)
(* onChaptersUpdated replaces it.  A handler is one action; failAt = k     *)
(* makes the k-th store call of the handler's run throw.  A handler that   *)
(* reads the list has one outcome for each list the query may return.      *)
(***************************************************************************)
MaxUiChapters == 3

\* project.id of the project ChapterManager shows.
OpenProject == 1

\* handleEbookPlanResponse's loop: one createChapter per draft, three store
\* calls each, the results dropped.
RECURSIVE CreateDrafts(_, _, _, _, _)
CreateDrafts(d, projectId, drafts, k, failAt) ==
  IF k > Len(drafts) THEN d
  ELSE CreateDrafts(createChapter(d, projectId, drafts[k].title,
                                  drafts[k].description, drafts[k].content,
                                  failAt - 3 * (k - 1)).db,
                    projectId, drafts, k + 1, failAt)

\* No draft parsed: false, nothing created.
handleEbookPlanResponse(d, response, projectId, failAt) ==
  LET parsed == parseEbookPlanResponse(response)
  IN IF parsed = {} THEN [db |-> d, result |-> FALSE, calls |-> 0]
     ELSE LET drafts == CHOOSE x \in parsed : TRUE
          IN [db |-> CreateDrafts(d, projectId, drafts, 1, failAt),
              result |-> TRUE, calls |-> 3 * Len(drafts)]

\* reorderedChapters: the item at position i taken out and put back at
\* position j of what is left.
Reordered(list, i, j) ==
  LET rest == SubSeq(list, 1, i - 1) \o SubSeq(list, i + 1, Len(list))
  IN SubSeq(rest, 1, j - 1) \o <<list[i]>> \o SubSeq(rest, j, Len(rest))

\* reorderedChapters.map((chapter, index) => ({...chapter, order: index}))
WithIndexOrders(list) == [k \in 1..Len(list) |-> [list[k] EXCEPT !.order = k - 1]]

\* Mutant of DropOutcome: the list shown stays as reordered when the save fails.
DropOutcomeKept(snapshot, speculative, success) == speculative

\* What handleDrop leaves in the list: the reordered list it showed before
\* the save, or, when updateChapterOrder reports failure, the list as it was.
DropOutcome(snapshot, speculative, success) ==
  IF success THEN speculative ELSE snapshot

handleDrop(d, list, dragItemIndex, dragOverItemIndex, failAt) ==
  LET reorderedChapters == Reordered(list, dragItemIndex, dragOverItemIndex)
      updates == IndexUpdates(reorderedChapters)
      speculative == WithIndexOrders(reorderedChapters)
      r == updateChapterOrder(d, updates, failAt)
  IN [db |-> r.db, chapters |-> DropOutcome(list, speculative, r.result),
      speculative |-> speculative, updates |-> updates, success |-> r.result]

\* Mutant of RenumberUpdates: no renumbering after a deletion.
NoRenumberUpdates(remainingChapters) == <<>>

\* remainingChapters.map((chapter, index) => ({id: chapter.id, order: index}))
RenumberUpdates(remainingChapters) == IndexUpdates(remainingChapters)

\* Store calls: 1 the DELETE, 2 the read of what remains, then one UPDATE for
\* each remaining chapter, then the final read.
handleDeleteChapter(d, list, chapterId, failAt) ==
  LET del == deleteChapter(d, chapterId, failAt)
  IN IF ~del.result THEN {[db |-> del.db, chapters |-> list]}
     ELSE UNION {
            LET updates == RenumberUpdates(remainingChapters)
                r == updateChapterOrder(del.db, updates, failAt - 2)
            IN {[db |-> r.db, chapters |-> finalChapters] :
                  finalChapters \in getChaptersByProjectId(r.db, OpenProject,
                                      failAt - 2 - Len(updates))} :
            remainingChapters \in getChaptersByProjectId(del.db, OpenProject, failAt - 1)}

\* The store calls of handleDeleteChapter when none throws.
DeleteChapterCalls(d, chapterId) ==
  3 + Cardinality({c \in ChaptersOf(d, OpenProject) : c.id # chapterId})

\* for (const chapter of chapters) await deleteChapter(chapter.id): one store
\* call each, the results dropped.
RECURSIVE DeleteListed(_, _, _, _)
DeleteListed(d, list, k, failAt) ==
  IF k > Len(list) THEN d
  ELSE DeleteListed(deleteChapter(d, list[k].id, failAt - (k - 1)).db,
                    list, k + 1, failAt)

\* Mutant of handleGeneratePlan: the answer is parsed first and the listed
\* chapters are deleted only when it holds a plan.
PlanParsedBeforeDelete(d, list, planResponse, proceed, failAt) ==
  IF planResponse = {} \/ (Len(list) > 0 /\ ~proceed)
    THEN {[db |-> d, chapters |-> list, cleared |-> d, plan |-> {}]}
    ELSE IF parseEbookPlanResponse(CHOOSE x \in planResponse : TRUE) = {}
      THEN {[db |-> d, chapters |-> list, cleared |-> d, plan |-> {FALSE}]}
    ELSE LET d1 == DeleteListed(d, list, 1, failAt)
             plan == handleEbookPlanResponse(d1, CHOOSE x \in planResponse : TRUE,
                                             OpenProject, failAt - Len(list))
         IN {[db |-> plan.db, chapters |-> updatedChapters,
              cleared |-> d1, plan |-> {plan.result}] :
               updatedChapters \in
                 getChaptersByProjectId(plan.db, OpenProject,
                                        failAt - Len(list) - plan.calls)}

\* planResponse is the provider's answer ({}: none), proceed the answer to
\* the confirmation asked when the list shown is not empty.
\* cleared is the store when handleEbookPlanResponse is called and plan
\* what that call returned (none, {}, when it is not called).
handleGeneratePlan(d, list, planResponse, proceed, failAt) ==
  IF planResponse = {} \/ (Len(list) > 0 /\ ~proceed)
    THEN {[db |-> d, chapters |-> list, cleared |-> d, plan |-> {}]}
    ELSE LET d1 == DeleteListed(d, list, 1, failAt)
             plan == handleEbookPlanResponse(d1, CHOOSE x \in planResponse : TRUE,
                                             OpenProject, failAt - Len(list))
         IN IF plan.result
              THEN {[db |-> plan.db, chapters |-> updatedChapters,
                     cleared |-> d1, plan |-> {plan.result}] :
                      updatedChapters \in
                        getChaptersByProjectId(plan.db, OpenProject,
                                               failAt - Len(list) - plan.calls)}
              ELSE {[db |-> plan.db, chapters |-> <<>>,
                     cleared |-> d1, plan |-> {plan.result}]}

\* The store calls of handleGeneratePlan when none throws.
GeneratePlanCalls(list, planResponse, proceed) ==
  IF planResponse = {} \/ (Len(list) > 0 /\ ~proceed) THEN 0
  ELSE LET parsed == parseEbookPlanResponse(CHOOSE x \in planResponse : TRUE)
       IN IF parsed = {} THEN Len(list)
          ELSE Len(list) + 3 * Len(CHOOSE x \in parsed : TRUE) + 1

\* The chapters a plan would add.
DraftCount(planResponse) ==
  IF planResponse = {} THEN 0
  ELSE LET parsed == parseEbookPlanResponse(CHOOSE x \in planResponse : TRUE)
       IN IF parsed = {} THEN 0 ELSE Len(CHOOSE x \in parsed : TRUE)

\* The new-chapter branch.  Store calls: 1-3 createChapter, 4 the read of the
\* list, made when createChapter returned the chapter.
handleSaveChapterNew(d, list, title, description, failAt) ==
  LET r == createChapter(d, OpenProject, title, description, Null, failAt)
  IN IF r.result = {} THEN {[db |-> r.db, chapters |-> list]}
     ELSE {[db |-> r.db, chapters |-> updatedChapters] :
             updatedChapters \in getChaptersByProjectId(r.db, OpenProject, failAt - 3)}

\* The edit branch.  Store calls: 1-2 updateChapter, 3 the read of the list.
handleSaveChapterEdit(d, list, editingChapter, title, description, failAt) ==
  LET r == updateChapter(d, editingChapter.id,
                         [title |-> title, description |-> description], failAt)
  IN IF r.result = {} THEN {[db |-> r.db, chapters |-> list]}
     ELSE {[db |-> r.db, chapters |-> updatedChapters] :
             updatedChapters \in getChaptersByProjectId(r.db, OpenProject, failAt - 2)}

\* The answers the provider gives to a plan prompt: none, a plan of one or
\* two blocks, text that is no plan.
PlanResponses ==
  {{}} \cup {{Join(BlockLines(n))} : n \in 1..Len(PlanBlocks)}
       \cup {{<<"m", "o", "r", "e">>}}

\* A store call threw during the handler run.
Failed(failAt) == [trail EXCEPT !.failed = @ \/ failAt # 0]

\* The store calls of a run of n that may throw: any one, or none; a run is
\* disturbed once at most, by a store call that throws or by a deleteChapter
\* made outside the handlers.
Faults(n) == IF trail.failed \/ trail.bare THEN {0} ELSE 0..n

HandleSaveChapterNew ==
  /\ Idle
  /\ db.seq.chapters < MaxUiChapters
  /\ \E title \in Titles, description \in Descriptions, failAt \in Faults(4) :
       \E out \in handleSaveChapterNew(db, chapters, title, description, failAt) :
         /\ db' = out.db
         /\ chapters' = out.chapters
         /\ trail' = Failed(failAt)
         /\ last' = [op |-> "handleSaveChapter", failAt |-> failAt]
  /\ UNCHANGED <<file, settings, tasks, engine>>

HandleSaveChapterEdit ==
  /\ Idle
  /\ \E k \in 1..Len(chapters), title \in Titles, description \in Descriptions,
        failAt \in Faults(3) :
       \E out \in handleSaveChapterEdit(db, chapters, chapters[k], title,
                                        description, failAt) :
         /\ db' = out.db
         /\ chapters' = out.chapters
         /\ trail' = Failed(failAt)
         /\ last' = [op |-> "handleSaveChapter", failAt |-> failAt]
  /\ UNCHANGED <<file, settings, tasks, engine>>

\* dragItemIndex === dragOverItemIndex returns at once.
HandleDrop ==
  /\ Idle
  /\ \E i, j \in 1..Len(chapters) :
       \E failAt \in Faults(Len(chapters)) :
         LET out == handleDrop(db, chapters, i, j, failAt)
         IN /\ i # j
            /\ db' = out.db
            /\ chapters' = out.chapters
            /\ trail' = Failed(failAt)
            /\ last' = [op |-> "handleDrop", pre |-> db, snapshot |-> chapters,
                        speculative |-> out.speculative, updates |-> out.updates,
                        failAt |-> failAt, success |-> out.success]
  /\ UNCHANGED <<file, settings, tasks, engine>>

HandleDeleteChapter ==
  /\ Idle
  /\ \E k \in 1..Len(chapters) :
       \E failAt \in Faults(DeleteChapterCalls(db, chapters[k].id)) :
         \E out \in handleDeleteChapter(db, chapters, chapters[k].id, failAt) :
           /\ db' = out.db
           /\ chapters' = out.chapters
           /\ trail' = Failed(failAt)
           /\ last' = [op |-> "handleDeleteChapter", pre |-> db,
                       id |-> chapters[k].id, failAt |-> failAt]
  /\ UNCHANGED <<file, settings, tasks, engine>>

HandleGeneratePlan ==
  /\ Idle
  /\ \E planResponse \in PlanResponses, proceed \in BOOLEAN :
       /\ db.seq.chapters + DraftCount(planResponse) <= MaxUiChapters
       /\ \E failAt \in Faults(GeneratePlanCalls(chapters, planResponse, proceed)) :
            \E out \in handleGeneratePlan(db, chapters, planResponse, proceed, failAt) :
              /\ db' = out.db
              /\ chapters' = out.chapters
              /\ trail' = Failed(failAt)
              /\ last' = [op |-> "handleGeneratePlan", failAt |-> failAt,
                          pre |-> db, list |-> chapters,
                          planResponse |-> planResponse, proceed |-> proceed,
                          cleared |-> out.cleared, plan |-> out.plan]
  /\ UNCHANGED <<file, settings, tasks, engine>>

\* chapterService.deleteChapter called on its own, outside handleDeleteChapter.
ServiceDeleteChapter ==
  /\ Idle
  /\ ~trail.failed /\ ~trail.bare
  /\ \E id \in ChapterIds(db) :
       LET r == deleteChapter(db, id, 0)
       IN /\ db' = r.db
          /\ last' = [op |-> "deleteChapter", pre |-> db, id |-> id,
                      result |-> r.result]
  /\ trail' = [trail EXCEPT !.bare = TRUE]
  /\ UNCHANGED <<chapters, file, settings, tasks, engine>>

\* A project has been created and opened; it has no chapter yet.
InitUI ==
  /\ db = createProject(NullDb, "P", Null, Null, 0).db
  /\ last = NoCall
  /\ chapters = <<>>
  /\ file = NoFile
  /\ trail = CleanTrail
  /\ settings = NoSettings
  /\ tasks = NoTasks
  /\ engine = NoEngine

NextUI ==
  \/ HandleSaveChapterNew
  \/ HandleSaveChapterEdit
  \/ HandleDrop
  \/ HandleDeleteChapter
  \/ HandleGeneratePlan
  \/ ServiceDeleteChapter
  \/ Return

SpecUI == InitUI /\ [][NextUI]_vars

(***************************************************************************)
(* Claims on the handlers (specification SpecUI).                          *)
(***************************************************************************)
\* C4: handleDrop shows the reordered list and then saves it with
\* updateChapterOrder; when the save reports failure, at whichever pair, the
\* list shown is again exactly the list as it was before the drop, not the
\* reordered one and not what the store was left with; when the save
\* succeeds, the list shown is the reordered one.
C4_DropRevertsOnFailure ==
  last.op = "handleDrop" =>
    /\ last.success = (last.failAt = 0)
    /\ last.speculative # last.snapshot
    /\ ~last.success => chapters = last.snapshot
    /\ last.success => chapters = last.speculative

\* C4 witness: chapters shown with orders 0, 1, 2, the first dragged to the
\* end; the second write threw after the first had changed the store; the
\* list shown is the one from before the drop.
C4_Witness ==
  /\ last.op = "handleDrop"
  /\ Len(last.snapshot) = 3
  /\ \A k \in 1..3 : last.snapshot[k].order = k - 1
  /\ last.speculative[3].id = last.snapshot[1].id
  /\ last.failAt = 2
  /\ ~last.success
  /\ db.chapters # last.pre.chapters
  /\ chapters = last.snapshot
  /\ chapters # last.speculative

\* The orders of the project's chapters are 0..n-1, each once.
Contiguous(d, projectId) ==
  LET rows == ChaptersOf(d, projectId)
  IN /\ {c.order : c \in rows} = 0..(Cardinality(rows) - 1)
     /\ \A c1, c2 \in rows : c1.order = c2.order => c1.id = c2.id

\* C6 as stated: as long as no store call has thrown (so that no operation
\* was left partially applied), the orders of the project's n chapters are a
\* permutation of 0..n-1 across chapter creations, drag-and-drop reorders,
\* chapter deletions and plan regenerations.
C6_OrdersContiguousAtRest ==
  ~trail.failed => Contiguous(db, OpenProject)

\* C6 amended: as long as no store call has thrown and every deletion went
\* through handleDeleteChapter, which renumbers what remains, the orders of
\* the project's n chapters are a permutation of 0..n-1.
C6_OrdersContiguousUnderHandlers ==
  (~trail.failed /\ ~trail.bare) => Contiguous(db, OpenProject)

\* C6 witness: handleDeleteChapter has deleted a chapter that was not the last
\* of three and the two that remain have orders 0 and 1.
C6_Witness ==
  /\ last.op = "handleDeleteChapter"
  /\ ~trail.failed /\ ~trail.bare
  /\ Cardinality(ChaptersOf(last.pre, OpenProject)) = 3
  /\ \E c \in ChaptersOf(last.pre, OpenProject) : c.id = last.id /\ c.order = 0
  /\ Cardinality(ChaptersOf(db, OpenProject)) = 2
  /\ Contiguous(db, OpenProject)

(***************************************************************************)
(* The settings (src/lib/settingsService.ts), the providers                *)
(* (src/providers) and the llmService dispatcher on top of them            *)
(* (src/services/llmService.ts).  A network call is an input of the        *)
(* action: net tells how each endpoint answers.  A call returns what it    *)
(* answered and calls, the requests it sent, in order.                     *)
(***************************************************************************)
MaxHistory == 2

\* The backends getActiveProvider knows.
Providers == {"openai", "ollama", "lmstudio"}

defaultSettings ==
  [provider |-> "openai", apiKey |-> "", baseUrl |-> "http://localhost:11434",
   model |-> "gpt-3.5-turbo"]

\* The stored item merged over the defaults; saveLlmSettings writes all four
\* keys, so the merge is the item.
loadLlmSettings(item) == IF item.stored THEN item.value ELSE defaultSettings

\* The item saveLlmSettings writes (the texts tried need no trim).
saveLlmSettings(s) ==
  LET provider == IF s.provider = "" THEN defaultSettings.provider ELSE s.provider
  IN [stored |-> TRUE,
      value |-> [provider |-> provider,
                 apiKey |-> s.apiKey,
                 baseUrl |-> IF s.baseUrl = "" THEN defaultSettings.baseUrl
                             ELSE s.baseUrl,
                 model |-> IF s.model # "" THEN s.model
                           ELSE IF provider = "ollama" THEN "llama3"
                           ELSE defaultSettings.model]]

\* What the options form may hold when it is saved; 'custom' names no backend.
SettingsForms ==
  [provider : Providers \cup {"custom", ""}, apiKey : {"", "k"},
   baseUrl : {"", "http://h"}, model : {"", "m"}]

\* getActiveProvider whose default case answers with the OpenAI module.
ProviderOrOpenai(s) ==
  IF s.provider \in Providers THEN {s.provider} ELSE {"openai"}

\* The provider module, or null ({}).
getActiveProvider(s) == IF s.provider \in Providers THEN {s.provider} ELSE {}

createProviderConfig(s) ==
  [apiKey |-> s.apiKey, baseUrl |-> s.baseUrl,
   model |-> IF s.model # "" THEN s.model
             ELSE IF s.provider = "ollama" THEN "llama3"
             ELSE IF s.provider = "lmstudio" THEN "loaded-model-id"
             ELSE "gpt-3.5-turbo"]

\* How the endpoints answer.  tags, GET <baseUrl>/api/tags: no answer, a
\* status that is not ok, ok with a body that is not JSON or whose models is
\* no list, ok with a JSON body without models, ok with models.  list, the
\* OpenAI-compatible models.list(): an error, no model, models.  chat,
\* chat.completions.create: an error, an empty message, a text.
TagsAnswers == {"networkError", "status", "malformed", "noModels", "models"}

ListAnswers == {"error", "empty", "models"}

ChatAnswers == {"error", "empty", "text"}

\* The model names a backend lists, sorted.
ModelNames == <<"m1", "m2">>

NativeRequest == [endpoint |-> "GET /api/tags"]

ListRequest == [endpoint |-> "models.list"]

ChatRequest(messages, model) ==
  [endpoint |-> "chat.completions.create", messages |-> messages, model |-> model]

\* openai.models.list() and the map / sort of its data, inside a try: the
\* sorted ids, or null ({}) when any of it throws.
GenericListing(answer) ==
  [result |-> IF answer = "error" THEN {}
              ELSE {IF answer = "empty" THEN <<>> ELSE ModelNames},
   calls |-> <<ListRequest>>]

NoAnswer == [result |-> {}, calls |-> <<>>]

\* getClient throws without an API key, inside the try.
openaiProvider_listModels(config, net) ==
  IF config.apiKey = "" THEN NoAnswer ELSE GenericListing(net.list)

\* getClient throws without a base URL, inside the try.
lmstudioProvider_listModels(config, net) ==
  IF config.baseUrl = "" THEN NoAnswer ELSE GenericListing(net.list)

\* The listing that makes the generic call whatever the native one gave.
ollamaListingBoth(config, net) ==
  IF config.baseUrl = "" THEN NoAnswer
  ELSE [result |-> GenericListing(net.list).result,
        calls |-> <<NativeRequest>> \o GenericListing(net.list).calls]

\* fetch(tagsUrl), then response.json() and data?.models?.map(...).sort()
\* || []; whatever throws there leads to the catch, which lists through the
\* OpenAI-compatible endpoint.
ollamaProvider_listModels(config, net) ==
  IF config.baseUrl = "" THEN NoAnswer
  ELSE IF net.tags \in {"noModels", "models"}
    THEN [result |-> {IF net.tags = "models" THEN ModelNames ELSE <<>>},
          calls |-> <<NativeRequest>>]
  ELSE [result |-> GenericListing(net.list).result,
        calls |-> <<NativeRequest>> \o GenericListing(net.list).calls]

\* provider.listModels(config)
provider_listModels(provider, config, net) ==
  CASE provider = "openai" -> openaiProvider_listModels(config, net)
    [] provider = "ollama" -> ollamaProvider_listModels(config, net)
    [] provider = "lmstudio" -> lmstudioProvider_listModels(config, net)

\* provider.getChatCompletion(messages, config): the three providers differ
\* in what getClient asks for; an empty message is answered with null.
provider_getChatCompletion(provider, messages, config, net) ==
  IF (IF provider = "openai" THEN config.apiKey ELSE config.baseUrl) = ""
    THEN NoAnswer
    ELSE [result |-> IF net.chat = "text" THEN {"g"} ELSE {},
          calls |-> <<ChatRequest(messages, config.model)>>]

\* models !== null && models.length > 0
openaiProvider_testConnection(config, net) ==
  LET models == openaiProvider_listModels(config, net)
  IN [result |-> \E list \in models.result : Len(list) > 0, calls |-> models.calls]

\* response.ok of the native endpoint; a fetch that throws is false.
ollamaProvider_testConnection(config, net) ==
  IF config.baseUrl = "" THEN [result |-> FALSE, calls |-> <<>>]
  ELSE [result |-> net.tags \notin {"networkError", "status"},
        calls |-> <<NativeRequest>>]

\* models !== null
lmstudioProvider_testConnection(config, net) ==
  LET models == lmstudioProvider_listModels(config, net)
  IN [result |-> models.result # {}, calls |-> models.calls]

\* provider?.testConnection is defined: each of the three modules has one.
HasTestConnection(provider) == provider \in {"openai", "ollama", "lmstudio"}

provider_testConnection(provider, config, net) ==
  CASE provider = "openai" -> openaiProvider_testConnection(config, net)
    [] provider = "ollama" -> ollamaProvider_testConnection(config, net)
    [] provider = "lmstudio" -> lmstudioProvider_testConnection(config, net)

\* What a dispatcher method answers when it hands the call to method of the
\* provider, and when it does not: invoked lists the provider methods called.
Dispatched(method, r) ==
  [result |-> r.result, calls |-> r.calls, invoked |-> <<method>>]

NotDispatched(result) == [result |-> result, calls |-> <<>>, invoked |-> <<>>]

\* llmService.processLLMPrompt
processLLMPrompt(item, prompt, net) ==
  LET s == loadLlmSettings(item)
      provider == getActiveProvider(s)
  IN IF provider = {} THEN NotDispatched({})
     ELSE Dispatched("getChatCompletion",
            provider_getChatCompletion(CHOOSE p \in provider : TRUE,
              <<[role |-> "user", content |-> prompt]>>,
              createProviderConfig(s), net))

\* llmService.listModels
listModels(item, net) ==
  LET s == loadLlmSettings(item)
      provider == getActiveProvider(s)
  IN IF provider = {} THEN NotDispatched({})
     ELSE Dispatched("listModels",
            provider_listModels(CHOOSE p \in provider : TRUE,
                                createProviderConfig(s), net))

\* testConnection that always takes the listModels test.
TestByListing(item, net) ==
  [listModels(item, net) EXCEPT !.result = @ # {}]

\* llmService.testConnection
testConnection(item, net) ==
  LET s == loadLlmSettings(item)
      provider == getActiveProvider(s)
  IN IF ~\E p \in provider : HasTestConnection(p)
       THEN [listModels(item, net) EXCEPT !.result = @ # {}]
       ELSE Dispatched("testConnection",
              provider_testConnection(CHOOSE p \in provider : TRUE,
                                      createProviderConfig(s), net))

\* The system message getChatResponse makes of the project: its name, its
\* description (or 'N/A') and its parameters.
SystemMessage(project) ==
  [role |-> "system",
   content |-> [name |-> project.name,
                description |-> IF project.description = Null THEN "N/A"
                                ELSE project.description,
                parameters |-> IF project.parameters = Null THEN {}
                               ELSE JSONparse(project.parameters)]]

\* messages.map(msg => ({role: msg.role, content: msg.content}))
RoleAndContent(messages) ==
  [i \in 1..Len(messages) |->
     [role |-> messages[i].role, content |-> messages[i].content]]

\* getChatResponse that puts the system message after the history.
ChatResponseSystemLast(d0, item, projectId, messages, failAt, net) ==
  LET s == loadLlmSettings(item)
      provider == getActiveProvider(s)
      d == initializeDatabase(d0)
      project == getProjectById(d0, projectId, failAt)
      none == [db |-> d, result |-> {}, calls |-> <<>>, invoked |-> <<>>,
               given |-> {}, throws |-> FALSE]
  IN IF provider = {} THEN [none EXCEPT !.db = d0]
     ELSE IF project = {} THEN none
     ELSE IF \E p \in project : ParametersThrow(p) THEN [none EXCEPT !.throws = TRUE]
     ELSE LET formattedMessages ==
                RoleAndContent(messages)
                  \o <<SystemMessage(CHOOSE p \in project : TRUE)>>
              r == provider_getChatCompletion(CHOOSE p \in provider : TRUE,
                     formattedMessages, createProviderConfig(s), net)
          IN [db |-> d, result |-> r.result, calls |-> r.calls,
              invoked |-> <<"getChatCompletion">>,
              given |-> {formattedMessages}, throws |-> FALSE]

\* llmService.getChatResponse.  failAt = 1: the project read throws inside
\* getProjectById.  JSON.parse stands outside any try: throws tells that the
\* call ended with its exception.  given is what the provider was handed.
getChatResponse(d0, item, projectId, messages, failAt, net) ==
  LET s == loadLlmSettings(item)
      provider == getActiveProvider(s)
      d == initializeDatabase(d0)
      project == getProjectById(d0, projectId, failAt)
      none == [db |-> d, result |-> {}, calls |-> <<>>, invoked |-> <<>>,
               given |-> {}, throws |-> FALSE]
  IN IF provider = {} THEN [none EXCEPT !.db = d0]
     ELSE IF project = {} THEN none
     ELSE IF \E p \in project : ParametersThrow(p) THEN [none EXCEPT !.throws = TRUE]
     ELSE LET formattedMessages ==
                <<SystemMessage(CHOOSE p \in project : TRUE)>>
                  \o RoleAndContent(messages)
              r == provider_getChatCompletion(CHOOSE p \in provider : TRUE,
                     formattedMessages, createProviderConfig(s), net)
          IN [db |-> d, result |-> r.result, calls |-> r.calls,
              invoked |-> <<"getChatCompletion">>,
              given |-> {formattedMessages}, throws |-> FALSE]

\* llmService.generateEbookPlanPrompt: the prompt text stands for what it is
\* made of; JSON.parse stands outside any try.
generateEbookPlanPrompt(project) ==
  IF ParametersThrow(project) THEN [result |-> {}, throws |-> TRUE]
  ELSE [result |-> {[kind |-> "plan", description |-> project.description,
                     parameters |-> IF project.parameters = Null THEN {}
                                    ELSE JSONparse(project.parameters)]},
        throws |-> FALSE]

\* llmService.generateChapterContentPrompt
generateChapterContentPrompt(project, chapter, previousChapterContent) ==
  IF ParametersThrow(project) THEN [result |-> {}, throws |-> TRUE]
  ELSE [result |-> {[kind |-> "content", description |-> project.description,
                     chapter |-> chapter.id,
                     parameters |-> IF project.parameters = Null THEN {}
                                    ELSE JSONparse(project.parameters),
                     context |-> IF ContinueNarrative(project)
                                   THEN previousChapterContent ELSE Null]},
        throws |-> FALSE]

\* projectService's parseParameters: undefined ({}) for no text and for a
\* text JSON.parse throws on.
parseParameters(paramsString) ==
  IF paramsString = Null THEN {} ELSE JSONparse(paramsString)

\* projectService.exportProjectToJson.  failAt = 1: the project read throws
\* (null); failAt = 2: the chapter read throws (no chapters).
exportProjectToJson(d0, projectId, chapterList, failAt) ==
  LET d == initializeDatabase(d0)
      project == getProjectById(d0, projectId, IF failAt = 1 THEN 1 ELSE 0)
  IN IF project = {} THEN [db |-> d, result |-> {}]
     ELSE LET p == CHOOSE p \in project : TRUE
          IN [db |-> d,
              result |-> {[name |-> p.name, description |-> p.description,
                           parameters |-> parseParameters(p.parameters),
                           chapters |->
                             [i \in 1..Len(chapterList) |->
                                [title |-> chapterList[i].title,
                                 description |-> chapterList[i].description,
                                 content |-> chapterList[i].content,
                                 order |-> chapterList[i].order]]]}]

(***************************************************************************)
(* The dispatcher's calls as actions (specification SpecLLM).  The store   *)
(* is empty or loaded from a file the user picked: a database with one     *)
(* project and one chapter, whose parameters column may hold anything.     *)
(***************************************************************************)
\* The parameters column of the project in such a file.
ParameterBlobs == ParameterTexts \cup {CorruptBlob}

ForeignFiles ==
  {[kind |-> "sqlite",
    projects |-> {[id |-> 1, name |-> "P", description |-> Null,
                   parameters |-> blob]},
    chapters |-> {[id |-> 1, projectId |-> 1, title |-> <<"T">>,
                   description |-> <<"D">>, content |-> Null, order |-> 0]},
    messages |-> {},
    seq |-> [chapters |-> 1, projects |-> 1, messages |-> 0]] :
     blob \in ParameterBlobs}

\* The chat histories handed to getChatResponse.
ChatMessages ==
  {[role |-> "user", content |-> "q"], [role |-> "assistant", content |-> "r"],
   [role |-> "user", content |-> "r"]}

Histories == UNION {[1..n -> ChatMessages] : n \in 0..MaxHistory}

\* The answers that matter to a listing, and to a chat completion.
ListingNets == [tags : TagsAnswers, list : ListAnswers, chat : {"text"}]

ChatNets == [tags : {"models"}, list : {"models"}, chat : ChatAnswers]

InitLLM ==
  /\ db = NullDb
  /\ last = NoCall
  /\ chapters = <<>>
  /\ file = NoFile
  /\ trail = CleanTrail
  /\ settings = NoSettings
  /\ tasks = NoTasks
  /\ engine = NoEngine

\* The options form is saved.
SaveLlmSettings ==
  /\ Idle
  /\ \E form \in SettingsForms :
       /\ settings' = saveLlmSettings(form)
       /\ last' = [op |-> "saveLlmSettings", form |-> form]
  /\ UNCHANGED <<db, chapters, file, trail, tasks, engine>>

\* "Load Project from File" on a file the user picked.
LlmLoadDatabaseFromFile ==
  /\ Idle
  /\ \E data \in ForeignFiles, failAt \in 0..1 :
       LET r == loadDatabaseFromFile(db, data, failAt)
       IN /\ db' = r.db
          /\ file' = data
          /\ last' = [op |-> "loadDatabaseFromFile", pre |-> db, result |-> r.result]
  /\ UNCHANGED <<chapters, trail, settings, tasks, engine>>

ListModels ==
  /\ Idle
  /\ \E net \in ListingNets :
       LET r == listModels(settings, net)
       IN last' = [op |-> "listModels", net |-> net, result |-> r.result,
                   calls |-> r.calls, invoked |-> r.invoked]
  /\ UNCHANGED <<db, chapters, file, trail, settings, tasks, engine>>

TestConnection ==
  /\ Idle
  /\ \E net \in ListingNets :
       LET r == testConnection(settings, net)
       IN last' = [op |-> "testConnection", net |-> net, result |-> r.result,
                   calls |-> r.calls, invoked |-> r.invoked]
  /\ UNCHANGED <<db, chapters, file, trail, settings, tasks, engine>>

ProcessLLMPrompt ==
  /\ Idle
  /\ \E net \in ChatNets :
       LET r == processLLMPrompt(settings, "p", net)
       IN last' = [op |-> "processLLMPrompt", net |-> net, result |-> r.result,
                   calls |-> r.calls, invoked |-> r.invoked]
  /\ UNCHANGED <<db, chapters, file, trail, settings, tasks, engine>>

GetChatResponse ==
  /\ Idle
  /\ \E projectId \in 1..MaxProjects, messages \in Histories,
        failAt \in 0..1, net \in ChatNets :
       LET r == getChatResponse(db, settings, projectId, messages, failAt, net)
       IN /\ db' = r.db
          /\ last' = [op |-> "getChatResponse", pre |-> db, projectId |-> projectId,
                      messages |-> messages, failAt |-> failAt, net |-> net,
                      result |-> r.result, calls |-> r.calls,
                      invoked |-> r.invoked, given |-> r.given,
                      throws |-> r.throws]
  /\ UNCHANGED <<chapters, file, trail, settings, tasks, engine>>

\* ChapterManager asks for the plan prompt of the project it shows.
GenerateEbookPlanPrompt ==
  /\ Idle
  /\ \E project \in db.projects :
       LET r == generateEbookPlanPrompt(project)
       IN last' = [op |-> "generateEbookPlanPrompt", project |-> project,
                   result |-> r.result, throws |-> r.throws]
  /\ UNCHANGED <<db, chapters, file, trail, settings, tasks, engine>>

GenerateChapterContentPrompt ==
  /\ Idle
  /\ \E project \in db.projects, previousChapterContent \in {Null} \cup Generated :
       \E chapter \in ChaptersOf(db, project.id) :
         LET r == generateChapterContentPrompt(project, chapter,
                                               previousChapterContent)
         IN last' = [op |-> "generateChapterContentPrompt", project |-> project,
                     result |-> r.result, throws |-> r.throws]
  /\ UNCHANGED <<db, chapters, file, trail, settings, tasks, engine>>

ExportProjectToJson ==
  /\ Idle
  /\ \E projectId \in 1..MaxProjects, failAt \in 0..2 :
       \E chapterList \in getChaptersByProjectId(db, projectId,
                                                 IF failAt = 2 THEN 1 ELSE 0) :
         LET r == exportProjectToJson(db, projectId, chapterList, failAt)
         IN /\ db' = r.db
            /\ last' = [op |-> "exportProjectToJson", pre |-> db,
                        projectId |-> projectId, failAt |-> failAt,
                        result |-> r.result, throws |-> FALSE]
  /\ UNCHANGED <<chapters, file, trail, settings, tasks, engine>>

\* The sequence workflow with the provider behind it: every step's answer is
\* what processLLMPrompt returns under the settings.
LlmGenerateChapterSequenceContent ==
  /\ Idle
  /\ \E projectId \in 1..MaxProjects, startChapterId \in ChapterIds(db),
        net \in ChatNets :
       \E allChapters \in getChaptersByProjectId(db, projectId, 0) :
         LET answer == processLLMPrompt(settings, "p", net).result
             steps == [i \in 1..Len(allChapters) |->
                         [response |-> IF answer = {} THEN Null
                                       ELSE CHOOSE text \in answer : TRUE,
                          failAt |-> 0]]
             r == generateChapterSequenceContent(db,
                    getProjectById(db, projectId, 0), allChapters,
                    startChapterId, steps)
         IN /\ db' = r.db
            /\ last' = [op |-> "generateChapterSequenceContent", pre |-> db,
                        projectId |-> projectId, startChapterId |-> startChapterId,
                        allChapters |-> allChapters, steps |-> steps,
                        attempts |-> r.attempts, started |-> r.started,
                        result |-> r.result, throws |-> FALSE]
  /\ UNCHANGED <<chapters, file, trail, settings, tasks, engine>>

NextLLM ==
  \/ SaveLlmSettings
  \/ LlmLoadDatabaseFromFile
  \/ ListModels
  \/ TestConnection
  \/ ProcessLLMPrompt
  \/ GetChatResponse
  \/ GenerateEbookPlanPrompt
  \/ GenerateChapterContentPrompt
  \/ ExportProjectToJson
  \/ LlmGenerateChapterSequenceContent
  \/ Return

SpecLLM == InitLLM /\ [][NextLLM]_vars

(***************************************************************************)
(* Claims on the providers and the dispatcher (specification SpecLLM).     *)
(***************************************************************************)
\* The settings the recorded call read, and the provider they name.
SettingsRead == loadLlmSettings(settings)

Unsupported == SettingsRead.provider \notin Providers

\* The requests the recorded call sent.
Requests == {last.calls[i] : i \in 1..Len(last.calls)}

\* The native listing did not give a list: no answer, a bad status, a body
\* that cannot be read.
NativeFailed == last.net.tags \in {"networkError", "status", "malformed"}

\* C15: listModels on the ollama provider asks the native endpoint first; it
\* asks the generic listing only after the native attempt failed, and after
\* each kind of failure (network error, status not ok, malformed body); when
\* both fail the result is null, and the caller always gets a value.
C15_NativeFirstThenGeneric ==
  (last.op = "listModels" /\ SettingsRead.provider = "ollama") =>
    /\ Len(last.calls) >= 1 /\ last.calls[1] = NativeRequest
    /\ (ListRequest \in Requests) <=> NativeFailed
    /\ NativeFailed => last.calls = <<NativeRequest, ListRequest>>
    /\ ~NativeFailed => last.result # {}
    /\ NativeFailed =>
         last.result = IF last.net.list = "error" THEN {}
                       ELSE IF last.net.list = "empty" THEN {<<>>}
                       ELSE {ModelNames}

\* C15 witness: the native endpoint answered with a body that is not JSON,
\* the generic listing was asked next and gave the models.
C15_Witness ==
  /\ last.op = "listModels"
  /\ SettingsRead.provider = "ollama"
  /\ last.net.tags = "malformed"
  /\ last.calls = <<NativeRequest, ListRequest>>
  /\ last.result = {ModelNames}

\* C15 witness of the double failure: both attempts failed, the result is null.
C15_WitnessBothFail ==
  /\ last.op = "listModels"
  /\ SettingsRead.provider = "ollama"
  /\ last.net.tags = "status"
  /\ last.net.list = "error"
  /\ last.calls = <<NativeRequest, ListRequest>>
  /\ last.result = {}

\* C16: llmService.testConnection answers with the provider's own
\* testConnection when the resolved provider has one: for openai, a listing
\* that is not null and not empty; for lmstudio, a listing that is not null;
\* for ollama, an ok status of the native endpoint.  Without one it answers
\* whether listModels gave a list.
C16_TestConnectionDispatch ==
  last.op = "testConnection" =>
    LET s == SettingsRead
    IN /\ s.provider = "openai" =>
            (last.result <=> (s.apiKey # "" /\ last.net.list = "models"))
       /\ s.provider = "lmstudio" => (last.result <=> last.net.list # "error")
       /\ s.provider = "ollama" =>
            (last.result <=> last.net.tags \notin {"networkError", "status"})
       /\ ~(\E p \in getActiveProvider(s) : HasTestConnection(p)) =>
            (last.result <=> listModels(settings, last.net).result # {})
       /\ last.result \in BOOLEAN

\* C16 witness: the openai provider lists no model: its testConnection says
\* false, and so does the dispatcher, though listModels gives a list.
C16_Witness ==
  /\ last.op = "testConnection"
  /\ SettingsRead.provider = "openai"
  /\ SettingsRead.apiKey # ""
  /\ last.net.list = "empty"
  /\ listModels(settings, last.net).result = {<<>>}
  /\ last.invoked = <<"testConnection">>
  /\ last.result = FALSE

\* C17: with a provider name that is none of the supported backends,
\* processLLMPrompt, getChatResponse and listModels return null and
\* testConnection returns false, and none of them calls a provider method or
\* sends a request.
C17_UnknownProviderShortCircuits ==
  (Unsupported
     /\ last.op \in {"processLLMPrompt", "getChatResponse", "listModels",
                     "testConnection"}) =>
    /\ last.invoked = <<>>
    /\ last.calls = <<>>
    /\ last.result = IF last.op = "testConnection" THEN FALSE ELSE {}

\* C17 witness: getChatResponse for a project that exists, under a provider
\* name of no backend, with an endpoint that would answer: null, nothing
\* called.
C17_Witness ==
  /\ Unsupported
  /\ last.op = "getChatResponse"
  /\ SelectProject(last.pre, last.projectId) # {}
  /\ last.net.chat = "text"
  /\ last.messages # <<>>
  /\ last.result = {}
  /\ last.invoked = <<>>

\* The project of the recorded getChatResponse is in the store.
ProjectExists == SelectProject(last.pre, last.projectId) # {}

\* C18: getChatResponse returns null without calling the provider when the
\* project does not exist, whatever the settings.  When the project exists
\* and the call gets to the provider, the provider is handed one system
\* message first and then the history, in its order, role and content
\* unchanged, and the call returns what the provider returned: its text, or
\* null when it failed.  (A call that ends with an exception is the matter of
\* C20.)
C18_ChatPrependsSystemMessage ==
  last.op = "getChatResponse" =>
    /\ ~ProjectExists =>
         /\ last.result = {} /\ last.invoked = <<>> /\ last.calls = <<>>
         /\ ~last.throws
    /\ \A given \in last.given :
         /\ Len(given) = Len(last.messages) + 1
         /\ given[1].role = "system"
         /\ \A i \in 1..Len(last.messages) : given[i + 1] = last.messages[i]
         /\ \A call \in Requests : call.messages = given
    /\ (ProjectExists /\ ~Unsupported /\ last.failAt = 0 /\ ~last.throws) =>
         /\ last.given # {}
         /\ last.invoked = <<"getChatCompletion">>
         /\ last.result =
              IF last.calls # <<>> /\ last.net.chat = "text" THEN {"g"} ELSE {}
    /\ last.given = {} => last.result = {}

\* C18 witness: a project that exists, a history of two different messages,
\* a provider that answers: the text is returned, and the provider was sent
\* the system message and then the two messages in their order.
C18_Witness ==
  /\ last.op = "getChatResponse"
  /\ ProjectExists
  /\ Len(last.messages) = 2
  /\ last.messages[1] # last.messages[2]
  /\ Len(last.calls) = 1
  /\ last.calls[1].messages[1].role = "system"
  /\ last.calls[1].messages[2] = last.messages[1]
  /\ last.calls[1].messages[3] = last.messages[2]
  /\ last.result = {"g"}

\* C18 witness of the missing project: a provider that would answer, no such
\* project: null.
C18_WitnessNoProject ==
  /\ last.op = "getChatResponse"
  /\ ~ProjectExists
  /\ ~Unsupported
  /\ last.net.chat = "text"
  /\ last.result = {}

\* The parameters column of the project the recorded call read is corrupt.
ReadCorruptBlob ==
  \/ /\ last.op \in {"generateEbookPlanPrompt", "generateChapterContentPrompt"}
     /\ last.project.parameters = CorruptBlob
  \/ /\ last.op = "getChatResponse"
     /\ ~Unsupported /\ last.failAt = 0
     /\ \E p \in SelectProject(last.pre, last.projectId) : p.parameters = CorruptBlob
  \/ /\ last.op = "generateChapterSequenceContent"
     /\ \E p \in SelectProject(last.pre, last.projectId) : p.parameters = CorruptBlob
     /\ FindIndex(last.allChapters, last.startChapterId) # 0
  \/ /\ last.op = "exportProjectToJson"
     /\ last.failAt # 1
     /\ \E p \in SelectProject(last.pre, last.projectId) : p.parameters = CorruptBlob

\* C20: an operation that reads a parameters column that is not valid JSON
\* goes on as if the project had no parameters: the prompt builders and
\* getChatResponse do not throw, generateChapterSequenceContent enters its
\* loop, exportProjectToJson exports the project without parameters.
C20_CorruptBlobIsNoParameters ==
  ReadCorruptBlob =>
    /\ ~last.throws
    /\ last.op = "generateChapterSequenceContent" => last.started
    /\ last.op = "exportProjectToJson" =>
         \E export \in last.result : export.parameters = {}

(***************************************************************************)
(* The sparse updates: updateChapter (src/services/chapterService.ts) and  *)
(* updateProject (src/services/projectService.ts), on a store that holds   *)
(* MaxProjects projects and MaxChapters chapters of project 1.             *)
(***************************************************************************)
\* JSON.stringify of an EbookParameters object.
JSONstringify(parameters) ==
  IF parameters.continueNarrative THEN "{\"continueNarrative\":true}"
  ELSE "{\"continueNarrative\":false}"

\* The values bound to the UPDATE of projects: the fields given, parameters
\* as JSON text.
ProjectValues(updates) ==
  [f \in DOMAIN updates |->
     IF f = "parameters" THEN JSONstringify(updates[f]) ELSE updates[f]]

\* UPDATE projects SET f = ?, ... WHERE id = ?
UpdateProjectRow(d, id, values) ==
  [d EXCEPT !.projects =
     {IF p.id = id
        THEN [f \in DOMAIN p |-> IF f \in DOMAIN values THEN values[f] ELSE p[f]]
        ELSE p : p \in @}]

\* With no field to set: one store call, the read.  Otherwise: 1 the UPDATE,
\* 2 the read-back; a throwing UPDATE is caught and answered with null.
updateProject(d0, id, updates, failAt) ==
  LET d == initializeDatabase(d0)
      d2 == UpdateProjectRow(d, id, ProjectValues(updates))
  IN IF DOMAIN updates = {}
       THEN [db |-> d, result |-> getProjectById(d, id, failAt), writes |-> 0]
       ELSE CASE failAt = 1 -> [db |-> d, result |-> {}, writes |-> 1]
              [] failAt = 2 -> [db |-> d2, result |-> {}, writes |-> 1]
              [] OTHER -> [db |-> d2, result |-> SelectProject(d2, id), writes |-> 1]

\* The store after n createProject calls and then m createChapter calls for
\* project 1, none of which failed.
RECURSIVE Populated(_, _)
Populated(n, m) ==
  IF m > 0
    THEN createChapter(Populated(n, m - 1), 1, <<"T">>, <<"D">>, Null, 0).db
  ELSE IF n > 0
    THEN createProject(Populated(n - 1, 0), "P", Null, Null, 0).db
  ELSE NullDb

\* The field sets the callers pass to updateChapter and to updateProject.
ChapterUpdates ==
  {NoFields, [title |-> <<"U">>], [content |-> "c", order |-> 1]}

ProjectUpdates ==
  {NoFields, [name |-> "Q"],
   [description |-> "d", parameters |-> [continueNarrative |-> TRUE]]}

InitUpdate ==
  /\ db = Populated(MaxProjects, MaxChapters)
  /\ last = NoCall
  /\ chapters = <<>>
  /\ file = NoFile
  /\ trail = CleanTrail
  /\ settings = NoSettings
  /\ tasks = NoTasks
  /\ engine = NoEngine

\* updateChapter on a chapter of the store or on an id no chapter has.
UpdateChapterFields ==
  /\ Idle
  /\ \E id \in 1..(MaxChapters + 1), failAt \in 0..2, updates \in ChapterUpdates :
       LET r == updateChapter(db, id, updates, failAt)
       IN /\ db' = r.db
          /\ last' = [op |-> "updateChapter", pre |-> db, id |-> id,
                      updates |-> updates, failAt |-> failAt,
                      writes |-> r.writes, result |-> r.result]
          /\ UNCHANGED appVars

UpdateProject ==
  /\ Idle
  /\ \E id \in 1..(MaxProjects + 1), failAt \in 0..2, updates \in ProjectUpdates :
       LET r == updateProject(db, id, updates, failAt)
       IN /\ db' = r.db
          /\ last' = [op |-> "updateProject", pre |-> db, id |-> id,
                      updates |-> updates, failAt |-> failAt,
                      writes |-> r.writes, result |-> r.result]
          /\ UNCHANGED appVars

NextUpdate ==
  \/ UpdateChapterFields
  \/ UpdateProject
  \/ Return

SpecUpdate == InitUpdate /\ [][NextUpdate]_vars

(***************************************************************************)
(* Claims on the sparse updates (specification SpecUpdate).                *)
(***************************************************************************)
\* The table the recorded update addresses.
UpdatedTable == IF last.op = "updateChapter" THEN "chapters" ELSE "projects"

\* The value the recorded update stores in field f.
StoredValue(f) ==
  IF last.op = "updateProject" THEN ProjectValues(last.updates)[f]
  ELSE last.updates[f]

\* The UPDATE of the recorded call was handed to the store and did not throw.
UpdateApplied == DOMAIN last.updates # {} /\ last.failAt # 1

\* C21: updateProject and updateChapter change only the fields present in
\* the request, and only in the row addressed: every other field of that
\* row, every other row of the table and every other table stay as they
\* were.  With no field in the request no UPDATE is issued, the store stays
\* as it was, and the row is returned as it was before the call.
C21_UpdateChangesOnlyGivenFields ==
  last.op \in {"updateChapter", "updateProject"} =>
    LET before == last.pre[UpdatedTable]
        after == db[UpdatedTable]
    IN /\ \A t \in {"projects", "chapters", "messages"} \ {UpdatedTable} :
            db[t] = last.pre[t]
       /\ {r \in after : r.id # last.id} = {r \in before : r.id # last.id}
       /\ {r.id : r \in after} = {r.id : r \in before}
       /\ \A r \in after : \A r0 \in before :
            (r.id = last.id /\ r0.id = last.id) =>
              \A f \in DOMAIN r :
                r[f] = IF f \in DOMAIN last.updates /\ UpdateApplied
                         THEN StoredValue(f) ELSE r0[f]
       /\ DOMAIN last.updates = {} =>
            /\ last.writes = 0
            /\ db = last.pre
            /\ last.failAt # 1 => last.result = {r \in before : r.id = last.id}

\* C21 witness: a title-only update of a chapter whose content and order an
\* earlier update had set, and which kept them.
C21_Witness ==
  /\ last.op = "updateChapter"
  /\ DOMAIN last.updates = {"title"}
  /\ last.result # {}
  /\ db # last.pre
  /\ \E c \in last.result : c.content = "c" /\ c.title = <<"U">>

\* C21 witness: an update with no field that returned the row as stored, on a
\* project an earlier update had changed.
C21_WitnessNoFields ==
  /\ last.op = "updateProject"
  /\ DOMAIN last.updates = {}
  /\ \E p \in last.result : p.name = "Q"

(***************************************************************************)
(* Claims on deleteChapter (specification Spec).                           *)
(***************************************************************************)
\* C22: deleteChapter removes the chapter row with the given id and nothing
\* else: every other chapter stays as it was, order included (no
\* renumbering), and so does every project.  When no chapter has the id the
\* call returns true and the tables stay as they were, so that a second
\* delete of the same id changes nothing.
C22_DeleteRemovesOnlyTheRow ==
  last.op = "deleteChapter" =>
    /\ last.result = (last.failAt = 0)
    /\ db.chapters \subseteq last.pre.chapters
    /\ last.pre.chapters \ db.chapters \subseteq SelectChapter(last.pre, last.id)
    /\ last.result => SelectChapter(db, last.id) = {}
    /\ db.projects = last.pre.projects
    /\ db.messages = last.pre.messages
    /\ db.seq = last.pre.seq
    /\ last.result => Rows(deleteChapter(db, last.id, 0).db) = Rows(db)

\* C22 witness: the delete of a chapter that has a sibling behind it, which
\* keeps its order and leaves a gap.
C22_Witness ==
  /\ last.op = "deleteChapter"
  /\ last.result = TRUE
  /\ \E gone \in SelectChapter(last.pre, last.id) :
       \E c \in db.chapters :
         /\ c.projectId = gone.projectId
         /\ c.order > gone.order
         /\ \A c2 \in ChaptersOf(db, c.projectId) : c2.order # c.order - 1

\* C22 witness: a delete of an id no chapter has, on a store that holds
\* chapters, which returned true.
C22_WitnessNoSuchId ==
  /\ last.op = "deleteChapter"
  /\ last.result = TRUE
  /\ SelectChapter(last.pre, last.id) = {}
  /\ db.chapters # {}

(***************************************************************************)
(* Claims on what the sequence workflow writes (specification SpecSeq).    *)
(***************************************************************************)
\* The ids of the chapters from the start chapter's position to the end of
\* the list of the recorded call (none when the start chapter is not in it).
FromStart ==
  IF StartIndex = 0 THEN {}
  ELSE {last.allChapters[i].id : i \in StartIndex..Len(last.allChapters)}

\* C23: generateChapterSequenceContent writes nothing but the content of
\* chapters of the given project at or after the start chapter's position:
\* no row comes or goes, title, description and order of every chapter and
\* the content of the chapters before the start position stay as they were.
\* When the project or the start chapter is not found the call returns false
\* with no prompt sent and the tables as they were.
C23_SequenceWritesOnlyContentFromStart ==
  last.op = "generateChapterSequenceContent" =>
    /\ db.projects = last.pre.projects
    /\ db.messages = last.pre.messages
    /\ db.seq = last.pre.seq
    /\ ChapterIds(db) = ChapterIds(last.pre)
    /\ \A c \in db.chapters : \A c0 \in last.pre.chapters :
         c.id = c0.id =>
           /\ [c EXCEPT !.content = c0.content] = c0
           /\ c.content # c0.content =>
                c.projectId = last.projectId /\ c.id \in FromStart
    /\ (SelectProject(last.pre, last.projectId) = {} \/ StartIndex = 0) =>
         /\ last.result = FALSE
         /\ last.attempts = <<>>
         /\ Rows(db) = Rows(last.pre)

\* C23 witness: a run that started behind the first chapter of the list and
\* stored text, the chapters before the start keeping what they had.
C23_Witness ==
  /\ SequenceRan
  /\ StartIndex > 1
  /\ \E c \in db.chapters : c.id \in FromStart /\ c.content \in Generated
  /\ \E c \in db.chapters : c.id \notin FromStart /\ c.content = Null

\* C23 witness: a call for a start chapter the project does not hold, on a
\* store that holds the project and chapters.
C23_WitnessNotFound ==
  /\ last.op = "generateChapterSequenceContent"
  /\ SelectProject(last.pre, last.projectId) # {}
  /\ last.allChapters # <<>>
  /\ StartIndex = 0
  /\ last.result = FALSE

(***************************************************************************)
(* Every operation of the three services under a store call that throws    *)
(* (specification SpecFault), on a store that holds MaxProjects projects,  *)
(* MaxChapters chapters of project 1 and one message.                      *)
(***************************************************************************)
\* chapterId?: number left out by the caller of getMessages / clearMessages.
NoChapterGiven == -1

\* SELECT * FROM projects ORDER BY createdAt DESC: the lists the query may
\* return (createdAt has a resolution of one second, rows of one second come
\* in an order SQL leaves open); a failing query is answered with [].
listProjects(d, failAt) ==
  IF failAt = 1 THEN {<<>>}
  ELSE LET rows == initializeDatabase(d).projects
       IN {s \in [1..Cardinality(rows) -> rows] :
             \A i, j \in 1..Cardinality(rows) : i # j => s[i] # s[j]}

\* WHERE projectId = ? [AND chapterId IS ?]
MessagesOf(d, projectId, chapterId) ==
  {m \in d.messages :
     /\ m.projectId = projectId
     /\ chapterId # NoChapterGiven => m.chapterId = chapterId}

\* SELECT * FROM messages WHERE ... ORDER BY createdAt ASC; a failing query is
\* answered with [].
getMessages(d, projectId, chapterId, failAt) ==
  IF failAt = 1 THEN {<<>>}
  ELSE LET rows == MessagesOf(initializeDatabase(d), projectId, chapterId)
       IN {s \in [1..Cardinality(rows) -> rows] :
             \A i, j \in 1..Cardinality(rows) : i # j => s[i] # s[j]}

\* One store call, the DELETE FROM messages WHERE ...
clearMessages(d0, projectId, chapterId, failAt) ==
  LET d == initializeDatabase(d0)
  IN IF failAt = 1 THEN [db |-> d0, result |-> FALSE]
     ELSE [db |-> [d EXCEPT !.messages = @ \ MessagesOf(d, projectId, chapterId)],
           result |-> TRUE]

InitFault ==
  /\ db = addMessage(Populated(MaxProjects, MaxChapters), 1, "user", "m", 1, 0).db
  /\ last = NoCall
  /\ chapters = <<>>
  /\ file = NoFile
  /\ trail = CleanTrail
  /\ settings = NoSettings
  /\ tasks = NoTasks
  /\ engine = NoEngine

\* The record of a service call: write is the position of its INSERT, UPDATE
\* or DELETE among its store calls (0: it only reads).
Called(op, failAt, write, result) ==
  [op |-> op, pre |-> db, failAt |-> failAt, write |-> write, result |-> result]

\* The ids the calls are made with: a row of the store, and an id no row has.
FaultProjectIds == {1, MaxProjects + 2}

FaultChapterIds == {1, MaxChapters + 2}

FaultCreateProject ==
  /\ Idle
  /\ db.seq.projects <= MaxProjects
  /\ \E failAt \in 0..2 :
       LET r == createProject(db, "P", Null, Null, failAt)
       IN /\ db' = r.db
          /\ last' = Called("createProject", failAt, 1, r.result)
  /\ UNCHANGED appVars

FaultListProjects ==
  /\ Idle
  /\ \E failAt \in 0..1 : \E list \in listProjects(db, failAt) :
       /\ db' = initializeDatabase(db)
       /\ last' = Called("listProjects", failAt, 0, list)
  /\ UNCHANGED appVars

FaultGetProjectById ==
  /\ Idle
  /\ \E id \in FaultProjectIds, failAt \in 0..1 :
       /\ db' = initializeDatabase(db)
       /\ last' = Called("getProjectById", failAt, 0, getProjectById(db, id, failAt))
  /\ UNCHANGED appVars

FaultUpdateProject ==
  /\ Idle
  /\ \E id \in FaultProjectIds, failAt \in 0..2,
        updates \in {NoFields, [name |-> "Q"]} :
       LET r == updateProject(db, id, updates, failAt)
       IN /\ updates = NoFields => failAt < 2
          /\ db' = r.db
          /\ last' = Called("updateProject", failAt, r.writes, r.result)
  /\ UNCHANGED appVars

FaultDeleteProject ==
  /\ Idle
  /\ \E id \in FaultProjectIds, failAt \in 0..1 :
       LET r == deleteProject(db, id, failAt)
       IN /\ db' = r.db
          /\ last' = Called("deleteProject", failAt, 1, r.result)
  /\ UNCHANGED appVars

FaultExportProjectToJson ==
  /\ Idle
  /\ \E projectId \in FaultProjectIds, failAt \in 0..2 :
       \E chapterList \in getChaptersByProjectId(db, projectId,
                                                 IF failAt = 2 THEN 1 ELSE 0) :
         LET r == exportProjectToJson(db, projectId, chapterList, failAt)
         IN /\ failAt = 2 => SelectProject(db, projectId) # {}
            /\ db' = r.db
            /\ last' = Called("exportProjectToJson", failAt, 0, r.result)
  /\ UNCHANGED appVars

FaultCreateChapter ==
  /\ Idle
  /\ db.seq.chapters <= MaxChapters
  /\ \E failAt \in 0..3 :
       LET r == createChapter(db, 1, <<"T">>, <<"D">>, Null, failAt)
       IN /\ db' = r.db
          /\ last' = Called("createChapter", failAt, 2, r.result)
  /\ UNCHANGED appVars

FaultGetChaptersByProjectId ==
  /\ Idle
  /\ \E projectId \in FaultProjectIds, failAt \in 0..1 :
       \E list \in getChaptersByProjectId(db, projectId, failAt) :
         /\ db' = initializeDatabase(db)
         /\ last' = Called("getChaptersByProjectId", failAt, 0, list)
  /\ UNCHANGED appVars

FaultGetChapterById ==
  /\ Idle
  /\ \E id \in FaultChapterIds, failAt \in 0..1 :
       /\ db' = initializeDatabase(db)
       /\ last' = Called("getChapterById", failAt, 0, getChapterById(db, id, failAt))
  /\ UNCHANGED appVars

FaultUpdateChapter ==
  /\ Idle
  /\ \E id \in FaultChapterIds, failAt \in 0..2,
        updates \in {NoFields, [title |-> <<"U">>]} :
       LET r == updateChapter(db, id, updates, failAt)
       IN /\ updates = NoFields => failAt < 2
          /\ db' = r.db
          /\ last' = Called("updateChapter", failAt, r.writes, r.result)
  /\ UNCHANGED appVars

\* The batch that puts the chapters of project 1 in the reverse of the order
\* of one of the lists read.
FaultUpdateChapterOrder ==
  /\ Idle
  /\ \E list \in getChaptersByProjectId(db, 1, 0) :
       LET updates == [i \in 1..Len(list) |->
                         [id |-> list[Len(list) + 1 - i].id, order |-> i - 1]]
       IN \E failAt \in 0..Len(updates) :
            LET r == updateChapterOrder(db, updates, failAt)
            IN /\ db' = r.db
               /\ last' = Called("updateChapterOrder", failAt, failAt, r.result)
  /\ UNCHANGED appVars

FaultDeleteChapter ==
  /\ Idle
  /\ \E id \in FaultChapterIds, failAt \in 0..1 :
       LET r == deleteChapter(db, id, failAt)
       IN /\ db' = r.db
          /\ last' = Called("deleteChapter", failAt, 1, r.result)
  /\ UNCHANGED appVars

FaultAddMessage ==
  /\ Idle
  /\ db.seq.messages <= 1
  /\ \E failAt \in 0..2 :
       LET r == addMessage(db, 1, "user", "m", NullId, failAt)
       IN /\ db' = r.db
          /\ last' = Called("addMessage", failAt, 1, r.result)
  /\ UNCHANGED appVars

FaultGetMessages ==
  /\ Idle
  /\ \E projectId \in FaultProjectIds, chapterId \in {NoChapterGiven, 1},
        failAt \in 0..1 :
       \E list \in getMessages(db, projectId, chapterId, failAt) :
         /\ db' = initializeDatabase(db)
         /\ last' = Called("getMessages", failAt, 0, list)
  /\ UNCHANGED appVars

FaultClearMessages ==
  /\ Idle
  /\ \E projectId \in FaultProjectIds, chapterId \in {NoChapterGiven, 1},
        failAt \in 0..1 :
       LET r == clearMessages(db, projectId, chapterId, failAt)
       IN /\ db' = r.db
          /\ last' = Called("clearMessages", failAt, 1, r.result)
  /\ UNCHANGED appVars

NextFault ==
  \/ FaultCreateProject
  \/ FaultListProjects
  \/ FaultGetProjectById
  \/ FaultUpdateProject
  \/ FaultDeleteProject
  \/ FaultExportProjectToJson
  \/ FaultCreateChapter
  \/ FaultGetChaptersByProjectId
  \/ FaultGetChapterById
  \/ FaultUpdateChapter
  \/ FaultUpdateChapterOrder
  \/ FaultDeleteChapter
  \/ FaultAddMessage
  \/ FaultGetMessages
  \/ FaultClearMessages
  \/ Return

SpecFault == InitFault /\ [][NextFault]_vars

(***************************************************************************)
(* Claims on store failures (specification SpecFault).                     *)
(***************************************************************************)
\* What an operation returns to report a failure: null for create, get and
\* update, false for delete, batch and clear, the empty list for the list
\* queries.
SentinelOf(op) ==
  CASE op \in {"deleteProject", "deleteChapter", "updateChapterOrder",
               "clearMessages"} -> FALSE
    [] op \in {"listProjects", "getChaptersByProjectId", "getMessages"} -> <<>>
    [] OTHER -> {}

\* The rows ever inserted into the tables of store d.
InsertCount(d) == d.seq.projects + d.seq.chapters + d.seq.messages

C24_WitnessReadBack ==
  /\ last.op = "createChapter"
  /\ last.failAt = 3
  /\ last.result = {}
  /\ Cardinality(db.chapters) = Cardinality(last.pre.chapters) + 1

(***************************************************************************)
(* getClient of the two self-hosted providers (src/providers), on base     *)
(* URLs written as sequences of characters (specification SpecUrl).        *)
(***************************************************************************)
MaxUrlLen == 4

\* The characters the base URLs tried are made of; "h" stands for any
\* character that is part of neither "/v1" nor a slash.
UrlChars == {"h", "/", "v", "1"}

\* The path suffix of the OpenAI-compatible API.
V1 == <<"/", "v", "1">>

\* String.prototype.endsWith
EndsWith(text, suffix) ==
  /\ Len(text) >= Len(suffix)
  /\ SubSeq(text, Len(text) - Len(suffix) + 1, Len(text)) = suffix

\* Ollama's getClient: throws without a base URL; otherwise the client's
\* baseURL is the base URL, with /v1 appended unless it ends with /v1.
ollama_getClient(config) ==
  IF config.baseUrl = <<>> THEN [throws |-> TRUE, baseURL |-> <<>>]
  ELSE [throws |-> FALSE,
        baseURL |-> IF EndsWith(config.baseUrl, V1) THEN config.baseUrl
                    ELSE config.baseUrl \o V1]

\* LM Studio's getClient: throws without a base URL; otherwise the client's
\* baseURL is the base URL as configured.
lmstudio_getClient(config) ==
  IF config.baseUrl = <<>> THEN [throws |-> TRUE, baseURL |-> <<>>]
  ELSE [throws |-> FALSE, baseURL |-> config.baseUrl]

InitUrl ==
  /\ db = NullDb
  /\ last = NoCall
  /\ chapters = <<>>
  /\ file = NoFile
  /\ trail = CleanTrail
  /\ settings = NoSettings
  /\ tasks = NoTasks
  /\ engine = NoEngine

OllamaGetClient ==
  /\ Idle
  /\ \E n \in 0..MaxUrlLen : \E baseUrl \in [1..n -> UrlChars] :
       LET client == ollama_getClient([baseUrl |-> baseUrl])
       IN last' = [op |-> "getClient", provider |-> "ollama", baseUrl |-> baseUrl,
                   throws |-> client.throws, baseURL |-> client.baseURL,
                   again |-> ollama_getClient([baseUrl |-> client.baseURL]).baseURL]
  /\ UNCHANGED <<db, chapters, file, trail, settings, tasks, engine>>

LmstudioGetClient ==
  /\ Idle
  /\ \E n \in 0..MaxUrlLen : \E baseUrl \in [1..n -> UrlChars] :
       LET client == lmstudio_getClient([baseUrl |-> baseUrl])
       IN last' = [op |-> "getClient", provider |-> "lmstudio", baseUrl |-> baseUrl,
                   throws |-> client.throws, baseURL |-> client.baseURL,
                   again |-> lmstudio_getClient([baseUrl |-> client.baseURL]).baseURL]
  /\ UNCHANGED <<db, chapters, file, trail, settings, tasks, engine>>

NextUrl ==
  \/ OllamaGetClient
  \/ LmstudioGetClient
  \/ Return

SpecUrl == InitUrl /\ [][NextUrl]_vars

(***************************************************************************)
(* Claims on the base URL (specification SpecUrl).                         *)
(***************************************************************************)
\* C25: the base URL either provider hands to its HTTP client ends with
\* /v1, and a base URL that was normalized once comes out of a second
\* normalization unchanged.
C25_ClientUrlEndsWithV1 ==
  (last.op = "getClient" /\ ~last.throws) =>
    /\ EndsWith(last.baseURL, V1)
    /\ last.again = last.baseURL

\* The part of C25 that holds: Ollama's client URL ends with /v1, once, and
\* stays as it is when normalized again; LM Studio's is the configured text.
C25_OllamaNormalizesLmstudioDoesNot ==
  (last.op = "getClient" /\ ~last.throws) =>
    /\ last.again = last.baseURL
    /\ last.provider = "ollama" =>
         /\ EndsWith(last.baseURL, V1)
         /\ last.baseURL \in {last.baseUrl, last.baseUrl \o V1}
    /\ last.provider = "lmstudio" => last.baseURL = last.baseUrl

(***************************************************************************)
(* Claims on plan generation (specification SpecUI).                       *)
(***************************************************************************)
\* The recorded handleGeneratePlan called handleEbookPlanResponse.
PlanHandled == last.op = "handleGeneratePlan" /\ last.plan # {}

\* What the parser makes of the answer the recorded handler got.
PlanParsed == parseEbookPlanResponse(CHOOSE x \in last.planResponse : TRUE)

\* The chapter rows added since handleEbookPlanResponse was called.
PlanCreated == db.chapters \ last.cleared.chapters

\* C26: handleEbookPlanResponse returns true only if every draft the parser
\* returned is a chapter of the project afterwards, the chapters of later
\* drafts having higher orders; when the parser returns null it returns
\* false and no chapter is created.
C26_TrueOnlyIfEveryDraftPersisted ==
  PlanHandled =>
    /\ PlanParsed = {} => (last.plan = {FALSE} /\ PlanCreated = {})
    /\ last.plan = {TRUE} =>
         \A drafts \in PlanParsed :
           \E f \in [1..Len(drafts) -> PlanCreated] :
             \A k \in 1..Len(drafts) :
               /\ f[k].projectId = OpenProject
               /\ f[k].title = drafts[k].title
               /\ f[k].description = drafts[k].description
               /\ k < Len(drafts) => f[k].order < f[k + 1].order

\* The ids of the chapters in the list the recorded handler was shown.
PlanListed == {last.list[i].id : i \in 1..Len(last.list)}

\* The recorded handler stopped before deleting: the provider gave nothing,
\* or the confirmation was asked and declined.
PlanStopped ==
  last.planResponse = {} \/ (Len(last.list) > 0 /\ ~last.proceed)

\* C27: handleGeneratePlan deletes the listed chapters once the provider has
\* answered and the user has confirmed, and before the answer is parsed:
\* handleEbookPlanResponse finds the store without them, and when the answer
\* holds no plan the store is left without them and with no new chapter.  A
\* provider that gives nothing and a declined confirmation leave the store
\* and the list as they were.  (Stated for runs in which no delete throws.)
C27_DeletesBeforeParsing ==
  last.op = "handleGeneratePlan" =>
    /\ PlanStopped => (db = last.pre /\ chapters = last.list /\ last.plan = {})
    /\ (~PlanStopped /\ last.failAt \notin 1..Len(last.list)) =>
         /\ last.plan # {}
         /\ last.cleared.chapters = {c \in last.pre.chapters : c.id \notin PlanListed}
         /\ PlanParsed = {} =>
              /\ last.plan = {FALSE}
              /\ db.chapters = {c \in last.pre.chapters : c.id \notin PlanListed}
              /\ db.seq = last.pre.seq
              /\ chapters = <<>>

\* C27 witness: a confirmed run on a project with chapters whose answer
\* holds no plan: the project had chapters and has none.
C27_Witness ==
  /\ last.op = "handleGeneratePlan"
  /\ last.failAt = 0
  /\ last.proceed
  /\ Len(last.list) > 1
  /\ last.planResponse # {}
  /\ PlanParsed = {}
  /\ PlanListed = {c.id : c \in ChaptersOf(last.pre, OpenProject)}
  /\ ChaptersOf(db, OpenProject) = {}

\* C27 witness: a declined confirmation, with an answer that holds a plan.
C27_WitnessDeclined ==
  /\ last.op = "handleGeneratePlan"
  /\ Len(last.list) > 0
  /\ ~last.proceed
  /\ last.planResponse # {}
  /\ PlanParsed # {}
  /\ db.chapters # {}

(***************************************************************************)
(* Claims on a load that fails (specification SpecStore).                  *)
(***************************************************************************)
\* The recorded call started with no database: at the start of the run, or
\* after a load that failed.
StartedWithoutDatabase == ~Idle /\ ~last.pre.open

\* C30: a loadDatabaseFromFile that fails returns false and leaves no
\* database (the one that was open is closed and db is null), whatever the
\* store held; the store operation that comes next then works on a newly
\* created empty database, which holds no project, chapter or message but
\* what that operation itself inserts.
C30_FailedLoadLeavesNoDatabase ==
  /\ (last.op = "loadDatabaseFromFile" /\ last.result = FALSE) =>
       /\ db = NullDb
       /\ initializeDatabase(db) = EmptyDb
  /\ (last.op = "loadDatabaseFromFile" /\ last.result = TRUE) =>
       (db.open /\ Rows(db) = Rows(file))
  /\ ~db.open => db = NullDb
  /\ (StartedWithoutDatabase /\ last.op # "loadDatabaseFromFile") =>
       /\ db.open
       /\ Cardinality(db.projects) + Cardinality(db.chapters)
            + Cardinality(db.messages) = RowsInserted(db)
       /\ RowsInserted(db) <= 1

\* C30 witness: a load that failed on a store that held a project and a
\* chapter.
C30_Witness ==
  /\ last.op = "loadDatabaseFromFile"
  /\ last.result = FALSE
  /\ last.pre.projects # {}
  /\ last.pre.chapters # {}
  /\ db = NullDb

\* C30 witness: the createProject that follows a failed load: the project it
\* returns is the only row of the store, with id 1, as in a new database.
C30_WitnessNextOperation ==
  /\ last.op = "createProject"
  /\ ~last.pre.open
  /\ file # NoFile
  /\ file.projects # {}
  /\ db.projects = last.result
  /\ \E p \in db.projects : p.id = 1
  /\ db.chapters = {}


(***************************************************************************)
(* Creates in flight together.  database.ts run, get and getOne each await *)
(* initializeDatabase(), so every store call of a service function is a    *)
(* point where another call's store call can run first.  A create is taken *)
(* one store call at a time: the MAX query (createChapter only), the       *)
(* INSERT, the read-back through last_insert_rowid().                      *)
(***************************************************************************)
MaxCallers == 2

Callers == 1..MaxCallers

\* A caller with no create in flight.
IdleTask ==
  [op |-> "none", pc |-> "idle", projectId |-> 0, nextOrder |-> 0,
   inserted |-> {}, result |-> {}]

\* The database is open and holds one project; no create is in flight.
InitAsync ==
  /\ db = Populated(1, 0)
  /\ last = NoCall
  /\ chapters = <<>>
  /\ file = NoFile
  /\ trail = CleanTrail
  /\ settings = NoSettings
  /\ tasks = [c \in Callers |-> IdleTask]
  /\ engine = NoEngine

\* The INSERT statements not yet run by the creates in flight.
InsertsAhead == Cardinality({c \in Callers : tasks[c].pc \in {"max", "insert"}})

\* A caller starts createProject, createChapter or addMessage: the function
\* runs up to its first await.
AsyncStart(c) ==
  /\ tasks[c].pc = "idle"
  /\ RowsInserted(db) + InsertsAhead < MaxStoreRows
  /\ \E op \in {"createProject", "createChapter", "addMessage"},
        projectId \in ProjectIds(db) :
       tasks' = [tasks EXCEPT ![c] =
                   [IdleTask EXCEPT !.op = op, !.projectId = projectId,
                      !.pc = IF op = "createChapter" THEN "max" ELSE "insert"]]
  /\ UNCHANGED <<db, last, chapters, file, trail, settings, engine>>

\* createChapter's SELECT MAX("order") ... WHERE projectId = ?
AsyncMaxQuery(c) ==
  /\ tasks[c].pc = "max"
  /\ tasks' = [tasks EXCEPT ![c].nextOrder = NextOrder(db, tasks[c].projectId),
                            ![c].pc = "insert"]
  /\ UNCHANGED <<db, last, chapters, file, trail, settings, engine>>

\* The INSERT of the create; inserted keeps the row it wrote.
AsyncInsert(c) ==
  /\ tasks[c].pc = "insert"
  /\ LET t == tasks[c]
         d == CASE t.op = "createProject" -> InsertProject(db, "P", Null, Null)
                [] t.op = "createChapter" ->
                     InsertChapter(db, t.projectId, <<"T">>, <<"D">>, Null, t.nextOrder)
                [] OTHER -> InsertMessage(db, t.projectId, NullId, "user", "m")
         row == CASE t.op = "createProject" -> SelectProject(d, d.rowid)
                  [] t.op = "createChapter" -> SelectChapter(d, d.rowid)
                  [] OTHER -> SelectMessage(d, d.rowid)
     IN /\ db' = d
        /\ tasks' = [tasks EXCEPT ![c].inserted = row, ![c].pc = "read"]
  /\ UNCHANGED <<last, chapters, file, trail, settings, engine>>

\* SELECT * FROM <table> WHERE id = last_insert_rowid(): the id is the one of
\* the latest INSERT on the connection, whichever call and table it was for.
AsyncReadBack(c) ==
  /\ tasks[c].pc = "read"
  /\ LET t == tasks[c]
         row == CASE t.op = "createProject" -> SelectProject(db, db.rowid)
                  [] t.op = "createChapter" -> SelectChapter(db, db.rowid)
                  [] OTHER -> SelectMessage(db, db.rowid)
     IN tasks' = [tasks EXCEPT ![c].result = row, ![c].pc = "done"]
  /\ UNCHANGED <<db, last, chapters, file, trail, settings, engine>>

\* The caller takes the result.
AsyncReturn(c) ==
  /\ tasks[c].pc = "done"
  /\ tasks' = [tasks EXCEPT ![c] = IdleTask]
  /\ UNCHANGED <<db, last, chapters, file, trail, settings, engine>>

NextAsync ==
  \/ \E c \in Callers : AsyncStart(c)
  \/ \E c \in Callers : AsyncMaxQuery(c)
  \/ \E c \in Callers : AsyncInsert(c)
  \/ \E c \in Callers : AsyncReadBack(c)
  \/ \E c \in Callers : AsyncReturn(c)

SpecAsync == InitAsync /\ [][NextAsync]_vars

\* C28: the entity a create returns is the row its own INSERT wrote (same
\* table, same field values), whatever other create's INSERT ran between that
\* INSERT and the read-back.
C28_ReturnedEntityIsOwnRow ==
  \A c \in DOMAIN tasks :
    tasks[c].pc = "done" => tasks[c].result = tasks[c].inserted

\* The INSERT itself is not lost: the row a create wrote is in the store while
\* the create reads back and when it has returned, whatever it returned.
C28_InsertedRowIsStored ==
  \A c \in DOMAIN tasks :
    tasks[c].pc \in {"read", "done"} =>
      /\ Cardinality(tasks[c].inserted) = 1
      /\ tasks[c].inserted \subseteq
           (CASE tasks[c].op = "createProject" -> db.projects
              [] tasks[c].op = "createChapter" -> db.chapters
              [] OTHER -> db.messages)


(***************************************************************************)
(* First callers of the store.  initializeDatabase (database.ts 10-119) is *)
(* taken one step at a time: the synchronous part of a call up to          *)
(* await initSqlJs(...), the part behind that await, and the caller's own  *)
(* statement on the handle it was given.  Database instances are numbered  *)
(* in the order they are built; db holds the content of the instance the   *)
(* module variable refers to, engine.replaced the content of the earlier   *)
(* ones.                                                                   *)
(***************************************************************************)
\* A caller that has not called the store.
IdleCaller ==
  [op |-> "none", pc |-> "idle", currentDb |-> 0, result |-> {}, throws |-> FALSE]

\* The page has just loaded: let SQL = null; let db = null.
InitInit ==
  /\ db = NullDb
  /\ last = NoCall
  /\ chapters = <<>>
  /\ file = NoFile
  /\ trail = CleanTrail
  /\ settings = NoSettings
  /\ tasks = [c \in Callers |-> IdleCaller]
  /\ engine = NoEngine

\* db = new SQL.Database() and the CREATE statements: a further, empty
\* instance; the one db referred to, if any, is no longer referred to.
Construct(e, d) ==
  [e EXCEPT !.SQL = TRUE, !.built = @ + 1,
            !.replaced = IF d.open THEN Append(@, d) ELSE @]

\* The content of instance k.
Instance(k) == IF k = engine.built THEN db ELSE engine.replaced[k]

\* The INSERT statements run so far, on whichever instance, and the ones the
\* run calls in flight will still make.
InsertsMade ==
  Cardinality({kr \in (DOMAIN engine.replaced) \X (1..MaxProjects) :
                 kr[2] <= engine.replaced[kr[1]].seq.projects})
    + db.seq.projects
    + Cardinality({c \in Callers : tasks[c].op = "run" /\ tasks[c].pc \in {"loading", "ready"}})

\* dbService.initialize(), run(sql) or get(sql) is called: initializeDatabase
\* runs up to its first await.  With db set it returns db; with db unset and
\* SQL loaded it builds an instance at once; otherwise it awaits initSqlJs.
InitCall(c) ==
  /\ tasks[c].pc = "idle"
  /\ \E op \in {"initialize", "run", "get"} :
       /\ op = "run" => InsertsMade < MaxProjects
       /\ IF db.open
            THEN /\ tasks' = [tasks EXCEPT ![c] =
                      [IdleCaller EXCEPT !.op = op, !.pc = "ready",
                                         !.currentDb = engine.built]]
                 /\ UNCHANGED <<db, engine>>
          ELSE IF engine.SQL
            THEN /\ engine' = Construct(engine, db)
                 /\ db' = EmptyDb
                 /\ tasks' = [tasks EXCEPT ![c] =
                      [IdleCaller EXCEPT !.op = op, !.pc = "ready",
                                         !.currentDb = engine.built + 1]]
          ELSE /\ tasks' = [tasks EXCEPT ![c] =
                      [IdleCaller EXCEPT !.op = op, !.pc = "loading"]]
               /\ UNCHANGED <<db, engine>>
  /\ UNCHANGED <<last, chapters, file, trail, settings>>

\* The caller's initSqlJs(...) settles.  Rejected: the call throws.
\* Fulfilled: SQL is set and the call goes on to db = new SQL.Database()
\* without looking at db again.
InitLoaded(c) ==
  /\ tasks[c].pc = "loading"
  /\ \E loaded \in BOOLEAN :
       IF loaded
         THEN /\ engine' = Construct(engine, db)
              /\ db' = EmptyDb
              /\ tasks' = [tasks EXCEPT ![c].pc = "ready",
                                        ![c].currentDb = engine.built + 1]
         ELSE /\ tasks' = [tasks EXCEPT ![c].pc = "done", ![c].throws = TRUE]
              /\ UNCHANGED <<db, engine>>
  /\ UNCHANGED <<last, chapters, file, trail, settings>>

\* The caller resumes with the handle initializeDatabase returned:
\* currentDb.run(INSERT ...), currentDb.prepare(SELECT ...), or nothing more
\* for initialize.
InitApply(c) ==
  /\ tasks[c].pc = "ready"
  /\ LET t == tasks[c]
         k == t.currentDb
         written == InsertProject(Instance(k), "P", Null, Null)
     IN /\ tasks' = [tasks EXCEPT ![c].pc = "done",
                       ![c].result = IF t.op = "get" THEN Instance(k).projects ELSE {}]
        /\ IF t.op = "run" /\ k = engine.built
             THEN db' = written /\ UNCHANGED engine
           ELSE IF t.op = "run"
             THEN engine' = [engine EXCEPT !.replaced[k] = written] /\ UNCHANGED db
           ELSE UNCHANGED <<db, engine>>
  /\ UNCHANGED <<last, chapters, file, trail, settings>>

\* The caller takes the outcome.
InitReturn(c) ==
  /\ tasks[c].pc = "done"
  /\ tasks' = [tasks EXCEPT ![c] = IdleCaller]
  /\ UNCHANGED <<db, last, chapters, file, trail, settings, engine>>

NextInit ==
  \/ \E c \in Callers : InitCall(c)
  \/ \E c \in Callers : InitLoaded(c)
  \/ \E c \in Callers : InitApply(c)
  \/ \E c \in Callers : InitReturn(c)

SpecInit == InitInit /\ [][NextInit]_vars

\* C29: under any interleaving of first callers the database is built at most
\* once, every caller holds that one instance, and no instance that was
\* written to is replaced by a second, empty one.
C29_DatabaseBuiltAtMostOnce ==
  /\ engine.built <= 1
  /\ \A c \in DOMAIN tasks :
       tasks[c].pc \in {"ready", "done"} /\ ~tasks[c].throws
         => tasks[c].currentDb = engine.built
  /\ \A k \in DOMAIN engine.replaced : engine.replaced[k].projects = {}


\* What does hold: only a call that was waiting for initSqlJs builds an
\* instance, so there are at most as many instances as callers, and a caller
\* never holds an instance that has not been built.
C29_OneBuildPerWaitingCaller ==
  /\ engine.built <= MaxCallers
  /\ Len(engine.replaced) = (IF engine.built = 0 THEN 0 ELSE engine.built - 1)
  /\ \A c \in DOMAIN tasks :
       tasks[c].pc = "ready" => tasks[c].currentDb \in 1..engine.built

\* A row written through run is in an instance db no longer refers to.
C29_WriteOnReplacedInstance ==
  \E k \in DOMAIN engine.replaced : engine.replaced[k].projects # {}

====
